---- MODULE Spec2Model ----
(***************************************************************************)
(* Maestro Blocks: the score document store (src/lib/stores/score.ts, the  *)
(* SolidJS store) and the score canvas that drives it                      *)
(* (src/lib/components/EditableHeader.tsx, function ScoreCanvas).          *)
(*                                                                         *)
(* Conventions.  Sequences are 1-based: a measure index k of the model is  *)
(* index k-1 of the source, and index 0 stands for the source's -1 / "not  *)
(* found".  Identifiers made by crypto.randomUUID() are fresh naturals     *)
(* drawn from the counter nextId.  Time is counted in milliseconds and     *)
(* advances in steps of TickMs.                                            *)
(***************************************************************************)
EXTENDS Integers, Sequences, FiniteSets, TLC

VARIABLES
  score,            \* scoreStore.state: [sections]
  editor,           \* editorStore.state
  isPlacingChord,   \* ScoreCanvas signal: the placing latch
  hoverHasChord,    \* ScoreCanvas signal
  isInsertMode,     \* ScoreCanvas signal: set by a double-click
  ghostNote,        \* ScoreCanvas signal: NoGhost or [pitch, measureIndex, sectionId]
  staffCoordinates, \* ScoreCanvas signal: set of [sectionId, numBounds]
  pending,          \* placements suspended at an await of the theory service
  releaseTimers,    \* setTimeout(() => setIsPlacingChord(false), 100): ms left of each
  nextId,           \* next fresh identifier
  placeCommands,    \* number of place commands the canvas has emitted
  lastCommand,      \* what the latest pointer handler did: the command it emitted,
                    \* "insert" (insert mode entered), "ignored" (latch set),
                    \* "noop" (a click with no ghost to act on) or "none"
  sinceSettled,     \* ms since the last placement settled (saturating)
  rafPending,       \* a requestAnimationFrame(() => renderAllSections()) is queued
  renderClock,      \* lastRenderTime of the canvas, as elapsed time, and the last scheduling gap
  settings,         \* worksheetSettingsStore: rootPreset, allowedRoots, allowedQualities
  updateManager     \* a WorksheetUpdateManager with its UpdateBatcher, and what has run

vars == <<score, editor, isPlacingChord, hoverHasChord, isInsertMode, ghostNote,
          staffCoordinates, pending, releaseTimers, nextId, placeCommands,
          lastCommand, sinceSettled, rafPending, renderClock, settings,
          updateManager>>

-----------------------------------------------------------------------------
(* Bounds of the model *)

MaxPlaceCommands == 2      \* place commands emitted in one behaviour
MaxGenerateFromId == 6     \* a worksheet is generated only while nextId is at most this
TickMs == 50               \* how far one Tick advances the clock
MaxHostMeasures == 20      \* "Add Staff Line" is not pressed beyond this many measures
RenderTickMs == 25         \* how far one RenderTick advances the clock
MaxLayoutMeasures == 6     \* a laid-out section has at most this many measures
MaxScheduled == 3          \* scheduleUpdate calls that add an update, in one behaviour

(* Program constants *)

LatchHoldMs == 100         \* EditableHeader.tsx:473
DefaultMeasureCount == 4   \* types/score.ts:349
DefaultAutoExpandCount == 2 \* types/score.ts:366
DefaultMaxMeasures == 16   \* types/score.ts:367
StaffLineMeasures == 4     \* Sidebar.tsx:43
MIN_RENDER_INTERVAL == 50  \* EditableHeader.tsx:180
STAFF_WIDTH == 680         \* vexflow.ts:33
STAFF_HEIGHT == 200        \* vexflow.ts:34
MEASURES_PER_SYSTEM == 4   \* vexflow.ts:38
SYSTEM_SPACING == 20       \* vexflow.ts:39
LEFT_MARGIN == 10          \* vexflow.ts:42
RIGHT_MARGIN == 10         \* vexflow.ts:43

Min(a, b) == IF a < b THEN a ELSE b
Max(a, b) == IF a > b THEN a ELSE b

NoGhost == [sectionId |-> 0]
NoChord == [id |-> 0]
NoAnchor == [sectionId |-> 0, measureId |-> 0]

Range(seq) == {seq[i] : i \in 1..Len(seq)}
RemoveAt(seq, i) == SubSeq(seq, 1, i - 1) \o SubSeq(seq, i + 1, Len(seq))

-----------------------------------------------------------------------------
(* Geometry tables: src/lib/services/vexflow.ts *)

NOTE_ORDER == <<"c", "d", "e", "f", "g", "a", "b">>

noteIndex(note) == (CHOOSE i \in 1..7 : NOTE_ORDER[i] = note) - 1

CLEF_REFERENCES ==
  [treble |-> [note |-> "f", octave |-> 5],
   bass   |-> [note |-> "a", octave |-> 3],
   alto   |-> [note |-> "g", octave |-> 4],
   tenor  |-> [note |-> "a", octave |-> 4]]

\* A conversion in which each staff position is one step up, not down.
staffPositionToPitchUp(staffPosition, clef) ==
  LET ref == CLEF_REFERENCES[clef]
      absolutePosition == ref.octave * 7 + noteIndex(ref.note) + staffPosition
  IN [note |-> NOTE_ORDER[(absolutePosition % 7) + 1],
      octave |-> Max(0, Min(8, absolutePosition \div 7)),
      accidental |-> "none"]

\* The conversion with the octave left as computed.
staffPositionToPitchUnclamped(staffPosition, clef) ==
  LET ref == CLEF_REFERENCES[clef]
      absolutePosition == ref.octave * 7 + noteIndex(ref.note) - staffPosition
  IN [note |-> NOTE_ORDER[(absolutePosition % 7) + 1],
      octave |-> absolutePosition \div 7,
      accidental |-> "none"]

\* Math.floor(a / 7) and ((a % 7) + 7) % 7: TLA+'s \div and % already floor.
staffPositionToPitch(staffPosition, clef) ==
  LET ref == CLEF_REFERENCES[clef]
      refAbsolutePosition == ref.octave * 7 + noteIndex(ref.note)
      absolutePosition == refAbsolutePosition - staffPosition
      octave == absolutePosition \div 7
      idx == absolutePosition % 7
  IN [note |-> NOTE_ORDER[idx + 1],
      octave |-> Max(0, Min(8, octave)),
      accidental |-> "none"]

pitchToStaffPosition(pitch, clef) ==
  LET ref == CLEF_REFERENCES[clef]
      refAbsolutePosition == ref.octave * 7 + noteIndex(ref.note)
      pitchAbsolutePosition == pitch.octave * 7 + noteIndex(pitch.note)
  IN refAbsolutePosition - pitchAbsolutePosition

\* Math.round(n / d) for d > 0: halves round up, as in JavaScript.
RoundDiv(n, d) == (2 * n + d) \div (2 * d)

\* Pixel Y to pitch and back, in the coordinates of one system.
yPositionToPitch(y, coords, clef) ==
  LET relativeY == y - coords.staffTopY
      halfLineSpacing == coords.lineSpacing \div 2
      staffPosition == RoundDiv(relativeY, halfLineSpacing)
  IN staffPositionToPitch(staffPosition, clef)

pitchToYPosition(pitch, coords, clef) ==
  LET staffPosition == pitchToStaffPosition(pitch, clef)
  IN coords.staffTopY + (staffPosition * coords.lineSpacing) \div 2

-----------------------------------------------------------------------------
(* Document constructors: src/lib/types/score.ts *)

createEmptyMeasure(number, id) ==
  [id |-> id, number |-> number, elements |-> <<>>]

\* A section whose id is firstId and whose measures take the ids after it.
newSection(measureCount, autoExpand, autoExpandCount, maxMeasures, firstId) ==
  [id |-> firstId,
   staff |-> [clef |-> "treble",
              measures |-> [i \in 1..measureCount |->
                              createEmptyMeasure(i, firstId + i)]],
   answerBoxes |-> <<>>,
   autoExpand |-> autoExpand,
   autoExpandCount |-> autoExpandCount,
   maxMeasures |-> maxMeasures]

createChordNamingSection(measureCount, firstId) ==
  newSection(measureCount, TRUE, DefaultAutoExpandCount, DefaultMaxMeasures, firstId)

-----------------------------------------------------------------------------
(* Chord theory service: src/lib/services/music.ts *)

\* What the Rust command answers (the command itself is outside the repository).
rustChordResponse(def, rootOctave) ==
  [pitches |-> <<[note |-> def.root, accidental |-> def.rootAccidental,
                  octave |-> rootOctave],
                 [note |-> NOTE_ORDER[((noteIndex(def.root) + 2) % 7) + 1],
                  accidental |-> "none", octave |-> rootOctave],
                 [note |-> NOTE_ORDER[((noteIndex(def.root) + 4) % 7) + 1],
                  accidental |-> "none", octave |-> rootOctave]>>,
   displayName |-> <<def.root, def.rootAccidental, def.quality>>]

\* A catch branch that answers with no pitch at all.
fallbackChordResponseEmpty(def, rootOctave) ==
  [pitches |-> <<>>, displayName |-> <<def.root, def.rootAccidental>>]

\* The catch branch: a root-only chord and a bare root name.
fallbackChordResponse(def, rootOctave) ==
  [pitches |-> <<[note |-> def.root, accidental |-> def.rootAccidental,
                  octave |-> rootOctave]>>,
   displayName |-> <<def.root, def.rootAccidental>>]

generateChordPitchesRust(def, rootOctave, invokeOk) ==
  IF invokeOk THEN rustChordResponse(def, rootOctave)
  ELSE fallbackChordResponse(def, rootOctave)

-----------------------------------------------------------------------------
(* scoreStore: src/lib/stores/score.ts *)

sectionIndex(sections, sectionId) ==
  IF \E i \in 1..Len(sections) : sections[i].id = sectionId
  THEN CHOOSE i \in 1..Len(sections) :
         /\ sections[i].id = sectionId
         /\ \A j \in 1..(i - 1) : sections[j].id # sectionId
  ELSE 0

measureIndexOf(measures, measureId) ==
  IF \E i \in 1..Len(measures) : measures[i].id = measureId
  THEN CHOOSE i \in 1..Len(measures) :
         /\ measures[i].id = measureId
         /\ \A j \in 1..(i - 1) : measures[j].id # measureId
  ELSE 0

\* A replacing placement: the measure's elements become the new chord alone.
placedElements(elements, chordElement) == <<chordElement>>

\* An auto-expand that does not look at maxMeasures at all.
autoExpandToAddAtMax(section, mi) ==
  IF mi = Len(section.staff.measures) /\ section.autoExpand
  THEN section.autoExpandCount
  ELSE 0

\* An auto-expand that ignores the room left below maxMeasures.
autoExpandToAddUnclamped(section, mi) ==
  LET isLastMeasure == mi = Len(section.staff.measures)
  IN IF isLastMeasure /\ section.autoExpand
        /\ Len(section.staff.measures) < section.maxMeasures
     THEN section.autoExpandCount
     ELSE 0

\* How many measures the auto-expand of a placement on measure mi appends.
autoExpandToAdd(section, mi) ==
  LET isLastMeasure == mi = Len(section.staff.measures)
  IN IF isLastMeasure /\ section.autoExpand
        /\ Len(section.staff.measures) < section.maxMeasures
     THEN Min(section.autoExpandCount,
              section.maxMeasures - Len(section.staff.measures))
     ELSE 0

\* An update that appends the measures but leaves the chord for a later one.
placeInSectionExpandOnly(section, mi, measureId, chordElement, firstId) ==
  LET currentCount == Len(section.staff.measures)
      newMeasures == [i \in 1..autoExpandToAdd(section, mi) |->
                        createEmptyMeasure(currentCount + i, firstId + i - 1)]
  IN [section EXCEPT !.staff.measures = @ \o newMeasures]

\* The body of the produce() of addChordToMeasure, on one section.
placeInSection(section, mi, measureId, chordElement, firstId) ==
  LET measures == section.staff.measures
      currentCount == Len(measures)
      toAdd == autoExpandToAdd(section, mi)
      answerBox == [measureId |-> measureId,
                    chordElementId |-> chordElement.id,
                    correctAnswer |-> chordElement.displayName]
      placed == [measures EXCEPT ![mi].elements =
                   placedElements(measures[mi].elements, chordElement)]
      newMeasures == [i \in 1..toAdd |->
                        createEmptyMeasure(currentCount + i, firstId + i - 1)]
  IN [section EXCEPT
        !.staff.measures = placed \o newMeasures,
        !.answerBoxes =
           Append(SelectSeq(section.answerBoxes,
                            LAMBDA box : box.measureId # measureId),
                  answerBox)]

\* A commit without the two early returns: with no target left, the answer
\* box is still appended, to every section.
addChordToMeasureCommitUnguarded(sc, sectionId, measureId, chordElement, firstId) ==
  LET si == sectionIndex(sc.sections, sectionId)
      mi == IF si = 0 THEN 0
            ELSE measureIndexOf(sc.sections[si].staff.measures, measureId)
      answerBox == [measureId |-> measureId,
                    chordElementId |-> chordElement.id,
                    correctAnswer |-> chordElement.displayName]
  IN IF mi = 0
     THEN [sc EXCEPT !.sections =
             [k \in 1..Len(sc.sections) |->
                [sc.sections[k] EXCEPT !.answerBoxes = Append(@, answerBox)]]]
     ELSE [sc EXCEPT !.sections[si] =
             placeInSection(sc.sections[si], mi, measureId, chordElement, firstId)]

\* The store after the setScore() of addChordToMeasure.
addChordToMeasureCommit(sc, sectionId, measureId, chordElement, firstId) ==
  LET si == sectionIndex(sc.sections, sectionId)
  IN IF si = 0 THEN sc
     ELSE LET mi == measureIndexOf(sc.sections[si].staff.measures, measureId)
          IN IF mi = 0 THEN sc
             ELSE [sc EXCEPT !.sections[si] =
                     placeInSection(sc.sections[si], mi, measureId,
                                    chordElement, firstId)]

\* Fresh ids the commit consumes (one per appended measure).
addChordToMeasureIds(sc, sectionId, measureId) ==
  LET si == sectionIndex(sc.sections, sectionId)
  IN IF si = 0 THEN 0
     ELSE LET mi == measureIndexOf(sc.sections[si].staff.measures, measureId)
          IN IF mi = 0 THEN 0 ELSE autoExpandToAdd(sc.sections[si], mi)

\* An addMeasures that numbers the new measures from the current count.
addMeasuresOffByOne(sc, sectionId, count, firstId) ==
  LET si == sectionIndex(sc.sections, sectionId)
  IN IF si = 0 THEN sc
     ELSE LET currentCount == Len(sc.sections[si].staff.measures)
              newMeasures == [i \in 1..count |->
                                createEmptyMeasure(currentCount + i - 1, firstId + i - 1)]
          IN [sc EXCEPT !.sections[si].staff.measures = @ \o newMeasures]

addMeasures(sc, sectionId, count, firstId) ==
  LET si == sectionIndex(sc.sections, sectionId)
  IN IF si = 0 THEN sc
     ELSE LET currentCount == Len(sc.sections[si].staff.measures)
              newMeasures == [i \in 1..count |->
                                createEmptyMeasure(currentCount + i, firstId + i - 1)]
          IN [sc EXCEPT !.sections[si].staff.measures = @ \o newMeasures]

addSection(sc, measureCount, firstId) ==
  [sc EXCEPT !.sections = Append(@, createChordNamingSection(measureCount, firstId))]

\* Each problem count's density: src/unnamed/part_012 (worksheetSettings store).
PROBLEM_COUNT_CONFIG ==
  [pc \in {4, 8, 12, 16, 24, 32} |->
     CASE pc = 4  -> [duration |-> 1, chordsPerMeasure |-> 1, measures |-> 4]
       [] pc = 8  -> [duration |-> 1, chordsPerMeasure |-> 1, measures |-> 8]
       [] pc = 12 -> [duration |-> 1, chordsPerMeasure |-> 1, measures |-> 12]
       [] pc = 16 -> [duration |-> 1, chordsPerMeasure |-> 1, measures |-> 16]
       [] pc = 24 -> [duration |-> 2, chordsPerMeasure |-> 2, measures |-> 12]
       [] pc = 32 -> [duration |-> 2, chordsPerMeasure |-> 2, measures |-> 16]]

chordElementOf(id, chordDef, rootOctave, duration, invokeOk) ==
  LET resp == generateChordPitchesRust(chordDef, rootOctave, invokeOk)
  IN [id |-> id, type |-> "chord", pitches |-> resp.pitches,
      duration |-> duration, chordDef |-> chordDef,
      displayName |-> resp.displayName]

\* The section generateRandomWorksheet builds before it replaces the sections:
\* chordsPerMeasure chords pushed onto every measure, one answer box per chord.
generatedSection(problemCount, chordDef, invokeOk, firstId) ==
  LET cfg == PROBLEM_COUNT_CONFIG[problemCount]
      n == cfg.measures
      cpm == cfg.chordsPerMeasure
      base == createChordNamingSection(n, firstId)
      elemId(m, slot) == firstId + n + (m - 1) * cpm + slot
      chord(m, slot) ==
        chordElementOf(elemId(m, slot), chordDef, 4, cfg.duration, invokeOk)
  IN [base EXCEPT
        !.staff.measures =
           [m \in 1..n |->
              [base.staff.measures[m] EXCEPT
                 !.elements = [slot \in 1..cpm |-> chord(m, slot)]]],
        !.answerBoxes =
           [k \in 1..(n * cpm) |->
              LET m == ((k - 1) \div cpm) + 1
                  slot == ((k - 1) % cpm) + 1
              IN [measureId |-> base.staff.measures[m].id,
                  chordElementId |-> elemId(m, slot),
                  correctAnswer |-> chord(m, slot).displayName]]]

generatedSectionIds(problemCount) ==
  LET cfg == PROBLEM_COUNT_CONFIG[problemCount]
  IN 1 + cfg.measures + cfg.measures * cfg.chordsPerMeasure

-----------------------------------------------------------------------------
(* editorStore: src/lib/stores/score.ts *)

\* A selection that opens nothing.
selectChordNothing(ed, chordId, anchor) == ed

selectChord(ed, chordId, anchor) ==
  [ed EXCEPT !.selectedChordId = chordId, !.popupAnchor = anchor]

-----------------------------------------------------------------------------
(* ScoreCanvas: src/lib/components/EditableHeader.tsx *)

\* renderAllSections: fresh coordinates of every section, from the document.
renderAllSections(sc) ==
  {[sectionId |-> sec.id, numBounds |-> Len(sec.staff.measures)] :
     sec \in Range(sc.sections)}

\* coords.measureBounds.length of a section; 0 when it has no coordinates.
numBoundsOf(coordinates, sectionId) ==
  IF \E c \in coordinates : c.sectionId = sectionId
  THEN (CHOOSE c \in coordinates : c.sectionId = sectionId).numBounds
  ELSE 0

isChord(el) == el.type = "chord"

measureHasChordAt(section, measureIndex) ==
  /\ measureIndex <= Len(section.staff.measures)
  /\ \E el \in Range(section.staff.measures[measureIndex].elements) : isChord(el)

findChordAtPosition(section, measureIndex) ==
  IF measureHasChordAt(section, measureIndex)
  THEN LET els == section.staff.measures[measureIndex].elements
       IN els[CHOOSE i \in 1..Len(els) :
                /\ isChord(els[i])
                /\ \A j \in 1..(i - 1) : ~isChord(els[j])]
  ELSE NoChord

\* The createEffect on the tracked signals.  It schedules a render unless the
\* previous one was scheduled less than MIN_RENDER_INTERVAL ago: here the
\* throttle may or may not let the render through.
RunEffect(changed, sc) ==
  IF changed /\ Len(sc.sections) > 0
  THEN rafPending' \in {rafPending, TRUE}
  ELSE UNCHANGED rafPending

\* Pointer inputs: the measures a pointer is moved over, and the staff
\* positions (0 = top line) its Y resolves to.
PointerTargets(numBounds) == {1, numBounds} \cap (1..numBounds)
HoverPositions == {0}

handleMouseMove(si, staffPosition) ==
  LET section == score.sections[si]
      numBounds == numBoundsOf(staffCoordinates, section.id)
  IN /\ si \in 1..Len(score.sections)
     /\ IF editor.activeTool.type # "chord"
        THEN ghostNote' = NoGhost /\ UNCHANGED hoverHasChord
        ELSE IF numBounds = 0
        THEN UNCHANGED <<ghostNote, hoverHasChord>>
        ELSE \E measureIndex \in PointerTargets(numBounds) :
               /\ hoverHasChord' = measureHasChordAt(section, measureIndex)
               /\ ghostNote' =
                    [pitch |-> staffPositionToPitch(staffPosition, section.staff.clef),
                     measureIndex |-> measureIndex,
                     sectionId |-> section.id]
     /\ lastCommand' = "none"
     /\ UNCHANGED <<updateManager, renderClock, settings, score, editor, isPlacingChord, isInsertMode, staffCoordinates,
                    pending, releaseTimers, nextId, placeCommands,
                    sinceSettled, rafPending>>

\* A pointer-leave that keeps the insert mode.
handleMouseLeaveKeepInsert ==
  /\ ghostNote' = NoGhost
  /\ hoverHasChord' = FALSE
  /\ lastCommand' = "none"
  /\ UNCHANGED <<updateManager, renderClock, settings, score, editor, isPlacingChord, isInsertMode, staffCoordinates,
                 pending, releaseTimers, nextId, placeCommands, sinceSettled,
                 rafPending>>

handleMouseLeave ==
  /\ ghostNote' = NoGhost
  /\ hoverHasChord' = FALSE
  /\ isInsertMode' = FALSE
  /\ lastCommand' = "none"
  /\ UNCHANGED <<updateManager, renderClock, settings, score, editor, isPlacingChord, staffCoordinates, pending,
                 releaseTimers, nextId, placeCommands, sinceSettled,
                 rafPending>>

\* A click handler without the latch guard.
clickIgnoredNever == FALSE

\* The guard at the top of handleStaffClick.
clickIgnored == isPlacingChord

\* A click handler that selects whatever the insert mode.
clickSelectsAnyMode(existingChord) == existingChord # NoChord

\* Whether a click on a measure holding existingChord selects it.
clickSelects(existingChord) == existingChord # NoChord /\ ~isInsertMode

\* The ghost names a measure of the clicked section.
ghostOn(section) ==
  /\ ghostNote # NoGhost
  /\ ghostNote.sectionId = section.id
  /\ ghostNote.measureIndex <= Len(section.staff.measures)

inversionMap(lastInversion) ==
  CASE lastInversion = "root" -> "root"
    [] lastInversion = "1" -> "first"
    [] lastInversion = "2" -> "second"
    [] lastInversion = "3" -> "third"
    [] OTHER -> "root"

\* The chord definition of the canvas of ScoreCanvas.tsx: the quality of the
\* active tool, always in root position.
placedChordDefFromTool(pitch) ==
  [root |-> pitch.note,
   rootAccidental |-> pitch.accidental,
   quality |-> editor.activeTool.quality,
   inversion |-> "root"]

\* The chord definition of placeNewChord: the last-used quality and inversion.
placedChordDef(pitch) ==
  [root |-> pitch.note,
   rootAccidental |-> pitch.accidental,
   quality |-> editor.lastQuality,
   inversion |-> inversionMap(editor.lastInversion)]

\* A click handler that sets the latch before it looks at anything.
handleStaffClickLatchFirst(si, shiftKey) ==
  /\ si \in 1..Len(score.sections)
  /\ isPlacingChord' = TRUE
  /\ lastCommand' = "none"
  /\ UNCHANGED <<updateManager, renderClock, settings, score, editor, hoverHasChord, isInsertMode, ghostNote,
                 staffCoordinates, pending, releaseTimers, nextId, placeCommands,
                 sinceSettled, rafPending>>

handleStaffClick(si, shiftKey) ==
  LET section == score.sections[si]
      measure == section.staff.measures[ghostNote.measureIndex]
      existingChord == findChordAtPosition(section, ghostNote.measureIndex)
      anchor == [sectionId |-> section.id, measureId |-> measure.id]
  IN /\ si \in 1..Len(score.sections)
     /\ IF clickIgnored
        THEN /\ lastCommand' = "ignored"
             /\ UNCHANGED <<editor, isPlacingChord, pending, placeCommands,
                            rafPending>>
        ELSE IF ~ghostOn(section)
        THEN /\ lastCommand' = "noop"
             /\ UNCHANGED <<editor, isPlacingChord, pending, placeCommands,
                            rafPending>>
        ELSE IF clickSelects(existingChord)
        THEN /\ editor' = selectChord(editor, existingChord.id, anchor)
             /\ lastCommand' = "select"
             /\ RunEffect(editor.selectedChordId # existingChord.id, score)
             /\ UNCHANGED <<isPlacingChord, pending, placeCommands>>
        ELSE \* placeNewChord, up to its first await
             /\ placeCommands < MaxPlaceCommands
             /\ isPlacingChord' = TRUE
             /\ pending' = Append(pending,
                  [phase |-> "pitches",
                   caller |-> "canvas",
                   sectionId |-> section.id,
                   measureId |-> measure.id,
                   chordDef |-> placedChordDef(ghostNote.pitch),
                   rootOctave |-> ghostNote.pitch.octave,
                   isQuickPlace |-> shiftKey,
                   elementId |-> 0])
             /\ placeCommands' = placeCommands + 1
             /\ lastCommand' = "place"
             /\ UNCHANGED <<editor, rafPending>>
     /\ UNCHANGED <<updateManager, renderClock, settings, score, hoverHasChord, isInsertMode, ghostNote, staffCoordinates,
                    releaseTimers, nextId, sinceSettled>>

handleStaffDoubleClick(si) ==
  LET section == score.sections[si]
      enters == /\ ghostNote # NoGhost
                /\ ghostNote.sectionId = section.id
                /\ findChordAtPosition(section, ghostNote.measureIndex) # NoChord
  IN /\ si \in 1..Len(score.sections)
     /\ isInsertMode' = (isInsertMode \/ enters)
     /\ lastCommand' = IF enters THEN "insert" ELSE "none"
     /\ UNCHANGED <<updateManager, renderClock, settings, score, editor, isPlacingChord, hoverHasChord, ghostNote,
                    staffCoordinates, pending, releaseTimers, nextId, placeCommands,
                    sinceSettled, rafPending>>

\* A release with no hold time.
armReleaseAtOnce(timers) == Append(timers, LatchHoldMs - LatchHoldMs)

\* A finally block that arms no timer.
armReleaseNever(timers) == timers

\* The finally block of placeNewChord: setTimeout(..., 100).
armRelease(timers) == Append(timers, LatchHoldMs)

\* A placement that leaves the insert mode as it finds it.
insertModeAfterPlaceKept(current) == current

\* setIsInsertMode(false) once the placement has been awaited.
insertModeAfterPlace(current) == FALSE

\* placeNewChord resumes after its own generateChordPitchesRust call and calls
\* scoreStore.addChordToMeasure, which draws the element id and awaits the
\* theory service in turn.
PitchesResolved(i) ==
  /\ i \in 1..Len(pending)
  /\ pending[i].phase = "pitches"
  /\ pending' = [pending EXCEPT ![i].phase = "store", ![i].elementId = nextId]
  /\ nextId' = nextId + 1
  /\ UNCHANGED <<updateManager, renderClock, settings, score, editor, isPlacingChord, hoverHasChord, isInsertMode,
                 ghostNote, staffCoordinates, releaseTimers, placeCommands,
                 lastCommand, sinceSettled, rafPending>>

\* addChordToMeasure resumes: the setScore(produce(...)), then the rest of
\* placeNewChord (render, leave insert mode, open the editor, arm the release).
StoreResolved(i, invokeOk) ==
  /\ i \in 1..Len(pending)
  /\ pending[i].phase = "store"
  /\ pending[i].caller = "canvas"
  /\ LET op == pending[i]
         chordElement == chordElementOf(op.elementId, op.chordDef, op.rootOctave,
                                        1, invokeOk)
         anchor == [sectionId |-> op.sectionId, measureId |-> op.measureId]
     IN /\ score' = addChordToMeasureCommit(score, op.sectionId, op.measureId,
                                            chordElement, nextId)
        /\ nextId' = nextId + addChordToMeasureIds(score, op.sectionId, op.measureId)
        /\ staffCoordinates' = renderAllSections(score')
        /\ isInsertMode' = insertModeAfterPlace(isInsertMode)
        /\ IF op.isQuickPlace
           THEN UNCHANGED <<editor, rafPending>>
           ELSE /\ editor' = selectChord(editor, op.elementId, anchor)
                /\ RunEffect(TRUE, score')
        /\ releaseTimers' = armRelease(releaseTimers)
        /\ pending' = RemoveAt(pending, i)
        /\ sinceSettled' = 0
  /\ UNCHANGED <<updateManager, renderClock, settings, isPlacingChord, hoverHasChord, ghostNote, placeCommands, lastCommand>>

\* The setTimeout callback of placeNewChord's finally block.
ReleaseTimerFires(i) ==
  /\ i \in 1..Len(releaseTimers)
  /\ releaseTimers[i] = 0
  /\ isPlacingChord' = FALSE
  /\ releaseTimers' = RemoveAt(releaseTimers, i)
  /\ UNCHANGED <<updateManager, renderClock, settings, score, editor, hoverHasChord, isInsertMode, ghostNote,
                 staffCoordinates, pending, nextId, placeCommands, lastCommand,
                 sinceSettled, rafPending>>

\* The queued animation frame runs renderAllSections.
AnimationFrame ==
  /\ rafPending
  /\ rafPending' = FALSE
  /\ staffCoordinates' = renderAllSections(score)
  /\ UNCHANGED <<updateManager, renderClock, settings, score, editor, isPlacingChord, hoverHasChord, isInsertMode,
                 ghostNote, pending, releaseTimers, nextId, placeCommands,
                 lastCommand, sinceSettled>>

\* TickMs milliseconds pass.
Tick ==
  /\ \E i \in 1..Len(releaseTimers) : releaseTimers[i] > 0
  /\ releaseTimers' = [i \in 1..Len(releaseTimers) |->
                         Max(0, releaseTimers[i] - TickMs)]
  /\ sinceSettled' = Min(LatchHoldMs, sinceSettled + TickMs)
  /\ UNCHANGED <<updateManager, renderClock, settings, score, editor, isPlacingChord, hoverHasChord, isInsertMode,
                 ghostNote, staffCoordinates, pending, nextId, placeCommands,
                 lastCommand, rafPending>>

-----------------------------------------------------------------------------
(* Sidebar and App: src/lib/components/Sidebar.tsx, src/lib/stores/worksheet.ts *)
(* (addStaffLine is an action of StoreSpec, below) *)

\* Sidebar.addStaffLine.  addSection replaces the sections array, which the
\* canvas effect tracks; addMeasures mutates the section in place.
addStaffLine ==
  /\ IF Len(score.sections) = 0
     THEN /\ score' = addSection(score, StaffLineMeasures, nextId)
          /\ nextId' = nextId + 1 + StaffLineMeasures
          /\ RunEffect(TRUE, score')
     ELSE /\ Len(score.sections[1].staff.measures) + StaffLineMeasures
               <= MaxHostMeasures
          /\ score' = addMeasures(score, score.sections[1].id, StaffLineMeasures,
                                  nextId)
          /\ nextId' = nextId + StaffLineMeasures
          /\ UNCHANGED <<rafPending>>
  /\ UNCHANGED <<updateManager, renderClock, settings, editor, isPlacingChord, hoverHasChord, isInsertMode, ghostNote,
                 staffCoordinates, pending, releaseTimers, placeCommands,
                 lastCommand, sinceSettled>>

\* Worksheet inputs: the problem counts chosen, the chords drawn and the
\* outcomes of the theory-service calls.
GenProblemCounts == {24}
GenInvokeOutcomes == {TRUE}
GenChordDefs ==
  {[root |-> "c", rootAccidental |-> "none", quality |-> "major",
    inversion |-> "root"]}

\* App.handleGenerateWorksheet: scoreStore.generateRandomWorksheet replaces all
\* sections by the generated one and bumps renderVersion.
generateRandomWorksheet(problemCount, chordDef, invokeOk) ==
  /\ nextId <= MaxGenerateFromId
  /\ score' = [score EXCEPT !.sections =
                 <<generatedSection(problemCount, chordDef, invokeOk, nextId)>>]
  /\ nextId' = nextId + generatedSectionIds(problemCount)
  /\ RunEffect(TRUE, score')
  /\ UNCHANGED <<updateManager, renderClock, settings, editor, isPlacingChord, hoverHasChord, isInsertMode, ghostNote,
                 staffCoordinates, pending, releaseTimers, placeCommands,
                 lastCommand, sinceSettled>>

-----------------------------------------------------------------------------
(* worksheetSettingsStore: src/unnamed/part_012 (stores/worksheetSettings.ts). *)
(* A RootOption is the pair of its note and accidental (its label is a     *)
(* function of the two); arrays are sequences.                             *)

ALL_ROOTS ==
  << [note |-> "c", accidental |-> "none"],  [note |-> "c", accidental |-> "sharp"],
     [note |-> "d", accidental |-> "flat"],  [note |-> "d", accidental |-> "none"],
     [note |-> "d", accidental |-> "sharp"], [note |-> "e", accidental |-> "flat"],
     [note |-> "e", accidental |-> "none"],  [note |-> "f", accidental |-> "none"],
     [note |-> "f", accidental |-> "sharp"], [note |-> "g", accidental |-> "flat"],
     [note |-> "g", accidental |-> "none"],  [note |-> "g", accidental |-> "sharp"],
     [note |-> "a", accidental |-> "flat"],  [note |-> "a", accidental |-> "none"],
     [note |-> "a", accidental |-> "sharp"], [note |-> "b", accidental |-> "flat"],
     [note |-> "b", accidental |-> "none"] >>

isNaturalRoot(r) == r.accidental = "none"
isSharpRoot(r) == r.accidental = "sharp" \/ r.accidental = "none"
isFlatRoot(r) == r.accidental = "flat" \/ r.accidental = "none"

NATURAL_ROOTS == SelectSeq(ALL_ROOTS, isNaturalRoot)

COMMON_KEY_ROOTS ==
  << [note |-> "c", accidental |-> "none"], [note |-> "d", accidental |-> "none"],
     [note |-> "e", accidental |-> "none"], [note |-> "f", accidental |-> "none"],
     [note |-> "g", accidental |-> "none"], [note |-> "a", accidental |-> "none"],
     [note |-> "b", accidental |-> "flat"], [note |-> "e", accidental |-> "flat"] >>

SHARP_ROOTS == SelectSeq(ALL_ROOTS, isSharpRoot)
FLAT_ROOTS == SelectSeq(ALL_ROOTS, isFlatRoot)

TRIAD_QUALITIES == <<"major", "minor", "diminished", "augmented">>

SEVENTH_QUALITIES ==
  <<"major7", "minor7", "dominant7", "diminished7", "half-diminished7", "augmented7">>

ALL_QUALITIES == TRIAD_QUALITIES \o SEVENTH_QUALITIES \o <<"sus2", "sus4">>

DEFAULT_SETTINGS ==
  [rootPreset |-> "natural",
   allowedRoots |-> NATURAL_ROOTS,
   allowedQualities |-> <<"major", "minor">>]

includes(seq, x) == \E i \in 1..Len(seq) : seq[i] = x

\* current.filter(q => !list.includes(q))
without(current, list) ==
  LET keep(q) == ~includes(list, q) IN SelectSeq(current, keep)

\* [...new Set([...current, ...list])]: the first occurrence of each, in order
RECURSIVE uniqueOf(_)
uniqueOf(seq) ==
  IF seq = <<>> THEN <<>>
  ELSE LET init == uniqueOf(SubSeq(seq, 1, Len(seq) - 1))
           last == seq[Len(seq)]
       IN IF includes(init, last) THEN init ELSE Append(init, last)

rootsOfPreset(preset, current) ==
  CASE preset = "all" -> ALL_ROOTS
    [] preset = "natural" -> NATURAL_ROOTS
    [] preset = "common-keys" -> COMMON_KEY_ROOTS
    [] preset = "sharps" -> SHARP_ROOTS
    [] preset = "flats" -> FLAT_ROOTS
    [] OTHER -> current

\* The settings store touches nothing of the document or the canvas.
settingsOnly ==
  UNCHANGED <<updateManager, score, editor, isPlacingChord, hoverHasChord, isInsertMode, ghostNote,
              staffCoordinates, pending, releaseTimers, nextId, placeCommands,
              lastCommand, sinceSettled, rafPending, renderClock>>

setRootPreset(preset) ==
  /\ settings' = [settings EXCEPT !.rootPreset = preset,
                                  !.allowedRoots = rootsOfPreset(preset, @)]
  /\ settingsOnly

\* toggleRoot that removes the last root as well
toggleRootLast(root) ==
  /\ settings' = [settings EXCEPT
                    !.allowedRoots = IF includes(@, root)
                                     THEN without(@, <<root>>)
                                     ELSE Append(@, root),
                    !.rootPreset = "custom"]
  /\ settingsOnly

toggleRoot(root) ==
  /\ settings' = [settings EXCEPT
                    !.allowedRoots = IF includes(@, root)
                                     THEN IF Len(@) > 1 THEN without(@, <<root>>) ELSE @
                                     ELSE Append(@, root),
                    !.rootPreset = "custom"]
  /\ settingsOnly

toggleQuality(quality) ==
  /\ settings' = [settings EXCEPT
                    !.allowedQualities =
                       IF includes(@, quality)
                       THEN IF Len(@) > 1 THEN without(@, <<quality>>) ELSE @
                       ELSE Append(@, quality)]
  /\ settingsOnly

\* setTriads / setSevenths: the two differ only in the list they switch
setQualityGroup(group, enabled) ==
  settings' = [settings EXCEPT
                 !.allowedQualities =
                    IF enabled THEN uniqueOf(@ \o group)
                    ELSE IF Len(without(@, group)) > 0 THEN without(@, group)
                         ELSE <<"major">>]

setTriads(enabled) ==
  /\ setQualityGroup(TRIAD_QUALITIES, enabled)
  /\ settingsOnly

setSevenths(enabled) ==
  /\ setQualityGroup(SEVENTH_QUALITIES, enabled)
  /\ settingsOnly

\* The buttons pressed: every preset, the chip of every natural root (so that
\* the roots can be taken away down to the last one, which is then pressed
\* too), and two quality chips.  Of the roots taken away only C is put back.
RootPresets == {"all", "natural", "common-keys", "sharps", "flats", "custom"}
ToggledRoots == {NATURAL_ROOTS[i] : i \in 1..Len(NATURAL_ROOTS)}
ToggledQualities == {"minor", "sus2"}
rootPressed(root) == includes(settings.allowedRoots, root) \/ root = ALL_ROOTS[1]

-----------------------------------------------------------------------------
(* The render throttle of the canvas: EditableHeader.tsx:178-221.  The     *)
(* clock keeps Date.now() - lastRenderTime (sinceRender), and, measured    *)
(* apart from it, the time since the effect last scheduled a render        *)
(* (sinceScheduled) and the time that lay between the last two schedulings *)
(* (gap).  All three saturate at RenderClockCap.  stale: the document has   *)
(* changed since the last render ran and no render is scheduled.            *)

RenderClockCap == 2 * MIN_RENDER_INTERVAL

\* let lastRenderTime = 0: at mount the last render is infinitely long ago
mountedClock ==
  [sinceRender |-> RenderClockCap, sinceScheduled |-> RenderClockCap,
   gap |-> RenderClockCap, scheduled |-> 0, skipped |-> FALSE, stale |-> FALSE]

scheduleRender ==
  /\ renderClock' = [renderClock EXCEPT !.sinceRender = 0,
                                        !.sinceScheduled = 0,
                                        !.gap = renderClock.sinceScheduled,
                                        !.scheduled = Min(2, @ + 1),
                                        !.stale = FALSE]
  /\ rafPending' = TRUE

\* The effect with no interval check
RunEffectUnthrottled(sc) ==
  IF Len(sc.sections) > 0
  THEN scheduleRender
  ELSE UNCHANGED <<renderClock, rafPending>>

\* The body of the createEffect, run because a tracked signal changed.
RunEffectThrottled(sc) ==
  IF Len(sc.sections) > 0
  THEN IF renderClock.sinceRender >= MIN_RENDER_INTERVAL
       THEN scheduleRender
       ELSE /\ renderClock' = [renderClock EXCEPT !.skipped = TRUE,
                                             !.stale = @ \/ ~rafPending]
            /\ UNCHANGED rafPending
  ELSE UNCHANGED <<renderClock, rafPending>>

-----------------------------------------------------------------------------
(* WorksheetUpdateManager and UpdateBatcher: src/unnamed/part_010.  An      *)
(* update function is the number of the scheduleUpdate call that brought   *)
(* it, with whether it throws when it runs.  updates, timeout and           *)
(* pendingUpdates are the fields of the two objects; timerArmed says that  *)
(* the host holds a live timer for flush; executed is the log of the       *)
(* update functions that have run, in the order they ran.                  *)

newUpdateManager ==
  [updates |-> <<>>, timeout |-> FALSE, timerArmed |-> FALSE,
   pendingUpdates |-> {}, executed |-> <<>>, scheduled |-> 0]

UpdateIds == {"a", "b"}

\* WorksheetUpdateManager.scheduleUpdate, with the UpdateBatcher.add it calls.
scheduleUpdate(updateId, throws) ==
  /\ updateManager.scheduled < MaxScheduled
  /\ IF updateId \in updateManager.pendingUpdates
     THEN UNCHANGED updateManager
     ELSE updateManager' =
            [updateManager EXCEPT
               !.pendingUpdates = @ \cup {updateId},
               !.updates = Append(@, [updateId |-> updateId,
                                      fn |-> updateManager.scheduled + 1,
                                      throws |-> throws]),
               !.timeout = TRUE,
               !.timerArmed = TRUE,
               !.scheduled = @ + 1]
  /\ UNCHANGED <<score, editor, isPlacingChord, hoverHasChord, isInsertMode,
                 ghostNote, staffCoordinates, pending, releaseTimers, nextId,
                 placeCommands, lastCommand, sinceSettled, rafPending,
                 renderClock, settings>>

\* WorksheetUpdateManager.cancelUpdate.
cancelUpdate(updateId) ==
  /\ updateManager' = [updateManager EXCEPT !.pendingUpdates = @ \ {updateId}]
  /\ UNCHANGED <<score, editor, isPlacingChord, hoverHasChord, isInsertMode,
                 ghostNote, staffCoordinates, pending, releaseTimers, nextId,
                 placeCommands, lastCommand, sinceSettled, rafPending,
                 renderClock, settings>>

\* WorksheetUpdateManager.cancelAll, with UpdateBatcher.cancel.
cancelAll ==
  /\ updateManager' = [updateManager EXCEPT !.timeout = FALSE,
                                            !.timerArmed = FALSE,
                                            !.updates = <<>>,
                                            !.pendingUpdates = {}]
  /\ UNCHANGED <<score, editor, isPlacingChord, hoverHasChord, isInsertMode,
                 ghostNote, staffCoordinates, pending, releaseTimers, nextId,
                 placeCommands, lastCommand, sinceSettled, rafPending,
                 renderClock, settings>>

\* How many of the updates a flush runs: forEach stops at the first that
\* throws, which has run.
flushRun(updates) ==
  IF \E k \in 1..Len(updates) : updates[k].throws
  THEN CHOOSE k \in 1..Len(updates) :
         /\ updates[k].throws
         /\ \A j \in 1..(k - 1) : ~updates[j].throws
  ELSE Len(updates)

\* The timer of the batcher fires: UpdateBatcher.flush.  Each wrapped update
\* runs its function and, in its finally, deletes its id from pendingUpdates.
\* An exception leaves forEach and flush at once: updates and timeout stay.
flush ==
  /\ updateManager.timerArmed
  /\ LET updates == updateManager.updates
         n == flushRun(updates)
         threw == \E k \in 1..Len(updates) : updates[k].throws
     IN updateManager' =
          [updateManager EXCEPT
             !.executed = @ \o [k \in 1..n |-> updates[k].fn],
             !.pendingUpdates = @ \ {updates[k].updateId : k \in 1..n},
             !.updates = IF threw THEN @ ELSE <<>>,
             !.timeout = IF threw THEN @ ELSE FALSE,
             !.timerArmed = FALSE]
  /\ UNCHANGED <<score, editor, isPlacingChord, hoverHasChord, isInsertMode,
                 ghostNote, staffCoordinates, pending, releaseTimers, nextId,
                 placeCommands, lastCommand, sinceSettled, rafPending,
                 renderClock, settings>>

UpdateManagerNext ==
  \/ \E updateId \in UpdateIds, throws \in BOOLEAN : scheduleUpdate(updateId, throws)
  \/ \E updateId \in UpdateIds : cancelUpdate(updateId)
  \/ cancelAll
  \/ flush

-----------------------------------------------------------------------------
(* The application *)

\* Section configurations the document starts from: the default of
\* createEmptyScore and sections with a smaller maxMeasures or autoExpand off.
SectionConfigs ==
  {[measureCount |-> DefaultMeasureCount, autoExpand |-> TRUE,
    autoExpandCount |-> DefaultAutoExpandCount, maxMeasures |-> DefaultMaxMeasures],
   [measureCount |-> 4, autoExpand |-> TRUE, autoExpandCount |-> 2, maxMeasures |-> 6],
   [measureCount |-> 3, autoExpand |-> TRUE, autoExpandCount |-> 2, maxMeasures |-> 4],
   [measureCount |-> 4, autoExpand |-> FALSE, autoExpandCount |-> 2, maxMeasures |-> 6]}

Init ==
  /\ \E cfg \in SectionConfigs :
       /\ score = [sections |-> <<newSection(cfg.measureCount, cfg.autoExpand,
                                             cfg.autoExpandCount, cfg.maxMeasures, 1)>>]
       /\ nextId = cfg.measureCount + 2
  /\ editor = [activeTool |-> [type |-> "chord", quality |-> "major"],
               selectedChordId |-> 0,
               popupAnchor |-> NoAnchor,
               lastQuality |-> "major",
               lastInversion |-> "root"]
  /\ isPlacingChord = FALSE
  /\ hoverHasChord = FALSE
  /\ isInsertMode = FALSE
  /\ ghostNote = NoGhost
  /\ staffCoordinates = {}
  /\ pending = <<>>
  /\ releaseTimers = <<>>
  /\ placeCommands = 0
  /\ lastCommand = "none"
  /\ sinceSettled = LatchHoldMs
  /\ rafPending = TRUE
  /\ renderClock = mountedClock
  /\ settings = DEFAULT_SETTINGS
  /\ updateManager = newUpdateManager

Next ==
  \/ \E si \in 1..Len(score.sections), pos \in HoverPositions :
       handleMouseMove(si, pos)
  \/ handleMouseLeave
  \/ \E si \in 1..Len(score.sections), shiftKey \in BOOLEAN : handleStaffClick(si, shiftKey)
  \/ \E si \in 1..Len(score.sections) : handleStaffDoubleClick(si)
  \/ \E i \in 1..Len(pending) : PitchesResolved(i)
  \/ \E i \in 1..Len(pending), invokeOk \in BOOLEAN : StoreResolved(i, invokeOk)
  \/ \E i \in 1..Len(releaseTimers) : ReleaseTimerFires(i)
  \/ AnimationFrame
  \/ Tick
  \/ \E pc \in GenProblemCounts, def \in GenChordDefs, invokeOk \in GenInvokeOutcomes :
       generateRandomWorksheet(pc, def, invokeOk)

Spec == Init /\ [][Next]_vars

-----------------------------------------------------------------------------
(* The store driven directly through its exported methods: by the Sidebar, *)
(* and by a host that does not serialize its placements (as the            *)
(* handleStaffClick of ScoreCanvas.svelte, which awaits addChordToMeasure  *)
(* behind no latch).  The document starts as createEmptyScore makes it.    *)

HostChordDefs ==
  {[root |-> r, rootAccidental |-> "none", quality |-> "major", inversion |-> "root"] :
     r \in {"c", "g"}}

\* scoreStore.addChordToMeasure up to its await: the element id is drawn.
hostAddChordToMeasure(sectionId, measureId, chordDef) ==
  /\ placeCommands < MaxPlaceCommands
  /\ pending' = Append(pending,
       [phase |-> "store",
        caller |-> "host",
        sectionId |-> sectionId,
        measureId |-> measureId,
        chordDef |-> chordDef,
        rootOctave |-> 4,
        isQuickPlace |-> TRUE,
        elementId |-> nextId])
  /\ nextId' = nextId + 1
  /\ placeCommands' = placeCommands + 1
  /\ UNCHANGED <<updateManager, renderClock, settings, score, editor, isPlacingChord, hoverHasChord, isInsertMode,
                 ghostNote, staffCoordinates, releaseTimers, lastCommand,
                 sinceSettled, rafPending>>

\* scoreStore.addChordToMeasure resumes: the setScore(produce(...)).
hostChordResolved(i, invokeOk) ==
  /\ i \in 1..Len(pending)
  /\ pending[i].phase = "store"
  /\ pending[i].caller = "host"
  /\ LET op == pending[i]
         chordElement == chordElementOf(op.elementId, op.chordDef, op.rootOctave,
                                        1, invokeOk)
     IN /\ score' = addChordToMeasureCommit(score, op.sectionId, op.measureId,
                                            chordElement, nextId)
        /\ nextId' = nextId + addChordToMeasureIds(score, op.sectionId, op.measureId)
        /\ pending' = RemoveAt(pending, i)
  /\ UNCHANGED <<updateManager, renderClock, settings, editor, isPlacingChord, hoverHasChord, isInsertMode, ghostNote,
                 staffCoordinates, releaseTimers, placeCommands, lastCommand,
                 sinceSettled, rafPending>>

StoreNext ==
  \/ \E sec \in Range(score.sections), def \in HostChordDefs :
       \E m \in PointerTargets(Len(sec.staff.measures)) :
         hostAddChordToMeasure(sec.id, sec.staff.measures[m].id, def)
  \/ \E i \in 1..Len(pending), invokeOk \in BOOLEAN : hostChordResolved(i, invokeOk)
  \/ addStaffLine

StoreInit ==
  /\ Init
  /\ score = [sections |-> <<createChordNamingSection(DefaultMeasureCount, 1)>>]

StoreSpec == StoreInit /\ [][StoreNext]_vars

-----------------------------------------------------------------------------
(* The canvas with the quality buttons of the Sidebar (ToolSpec) and with  *)
(* the chord editor popup (PopupSpec): src/lib/components/Sidebar.tsx,     *)
(* src/unnamed/part_006                                                    *)

\* Qualities and inversions picked in the Sidebar and in the popup.
ToolQualities == {"major", "minor"}
PopupInversions == {"first"}

\* editorStore.setChordQuality, called by the Sidebar's quality buttons.
setChordQuality(ed, quality) ==
  [ed EXCEPT !.activeTool = [type |-> "chord", quality |-> quality]]

\* editorStore.setLastUsed.
setLastUsed(ed, quality, inversion) ==
  [ed EXCEPT !.lastQuality = quality, !.lastInversion = inversion]

\* The popup's map from ChordInversion to the short form of the editor store.
popupInversionMap(inversion) ==
  CASE inversion = "root" -> "root"
    [] inversion = "first" -> "1"
    [] inversion = "second" -> "2"
    [] inversion = "third" -> "3"

\* scoreStore.getChordElement: the chord with that id, NoChord when absent.
getChordElement(sc, elementId) ==
  LET found == {el \in UNION {Range(m.elements) :
                               m \in UNION {Range(sec.staff.measures) :
                                            sec \in Range(sc.sections)}} :
                  el.id = elementId /\ isChord(el)}
  IN IF found = {} THEN NoChord ELSE CHOOSE el \in found : TRUE

\* The store after the setScore() of updateChord.
updateChordCommit(sc, sectionId, elementId, chordDef, resp) ==
  LET si == sectionIndex(sc.sections, sectionId)
      updated(el) == IF el.id = elementId /\ isChord(el)
                     THEN [el EXCEPT !.pitches = resp.pitches,
                                     !.chordDef = chordDef,
                                     !.displayName = resp.displayName]
                     ELSE el
      withChord(m) == [m EXCEPT !.elements =
                         [k \in 1..Len(m.elements) |-> updated(m.elements[k])]]
      withAnswer(box) == IF box.chordElementId = elementId
                         THEN [box EXCEPT !.correctAnswer = resp.displayName]
                         ELSE box
  IN IF si = 0 \/ getChordElement([sections |-> <<sc.sections[si]>>], elementId) = NoChord
     THEN sc
     ELSE [sc EXCEPT
             !.sections[si].staff.measures =
                [mi \in 1..Len(sc.sections[si].staff.measures) |->
                   withChord(sc.sections[si].staff.measures[mi])],
             !.sections[si].answerBoxes =
                [b \in 1..Len(sc.sections[si].answerBoxes) |->
                   withAnswer(sc.sections[si].answerBoxes[b])]]

\* A quality button of the Sidebar is pressed.
selectChordQuality(quality) ==
  /\ editor.activeTool.quality # quality
  /\ editor' = setChordQuality(editor, quality)
  /\ UNCHANGED <<updateManager, renderClock, settings, score, isPlacingChord, hoverHasChord, isInsertMode, ghostNote,
                 staffCoordinates, pending, releaseTimers, nextId, placeCommands,
                 lastCommand, sinceSettled, rafPending>>

\* A select of the popup changes: updateChord, up to its await.  The popup
\* edits the selected chord, one change at a time.
updateChord(quality, inversion) ==
  LET chord == getChordElement(score, editor.selectedChordId)
      si == sectionIndex(score.sections, editor.popupAnchor.sectionId)
  IN /\ editor.selectedChordId # 0
     /\ editor.popupAnchor # NoAnchor
     /\ chord # NoChord
     /\ si # 0
     /\ \A op \in Range(pending) : op.caller # "popup"
     /\ <<quality, inversion>> # <<chord.chordDef.quality, chord.chordDef.inversion>>
     /\ pending' = Append(pending,
          [phase |-> "update",
           caller |-> "popup",
           sectionId |-> editor.popupAnchor.sectionId,
           measureId |-> editor.popupAnchor.measureId,
           chordDef |-> [root |-> chord.chordDef.root,
                         rootAccidental |-> chord.chordDef.rootAccidental,
                         quality |-> quality,
                         inversion |-> inversion],
           rootOctave |-> IF score.sections[si].staff.clef = "bass" THEN 3 ELSE 4,
           isQuickPlace |-> FALSE,
           elementId |-> editor.selectedChordId])
     /\ UNCHANGED <<updateManager, renderClock, settings, score, editor, isPlacingChord, hoverHasChord, isInsertMode,
                    ghostNote, staffCoordinates, releaseTimers, nextId,
                    placeCommands, lastCommand, sinceSettled, rafPending>>

\* scoreStore.updateChord resumes (setScore, renderVersion + 1) and the popup
\* records the quality and inversion as last used.
updateChordResolved(i, invokeOk) ==
  /\ i \in 1..Len(pending)
  /\ pending[i].phase = "update"
  /\ LET op == pending[i]
         resp == generateChordPitchesRust(op.chordDef, op.rootOctave, invokeOk)
     IN /\ score' = updateChordCommit(score, op.sectionId, op.elementId,
                                      op.chordDef, resp)
        /\ editor' = setLastUsed(editor, op.chordDef.quality,
                                 popupInversionMap(op.chordDef.inversion))
        /\ RunEffect(TRUE, score')
        /\ pending' = RemoveAt(pending, i)
  /\ UNCHANGED <<updateManager, renderClock, settings, isPlacingChord, hoverHasChord, isInsertMode, ghostNote,
                 staffCoordinates, releaseTimers, nextId, placeCommands,
                 lastCommand, sinceSettled>>

ToolNext ==
  \/ \E si \in 1..Len(score.sections), pos \in HoverPositions :
       handleMouseMove(si, pos)
  \/ handleMouseLeave
  \/ \E si \in 1..Len(score.sections), shiftKey \in BOOLEAN : handleStaffClick(si, shiftKey)
  \/ \E i \in 1..Len(pending) : PitchesResolved(i)
  \/ \E i \in 1..Len(pending), invokeOk \in GenInvokeOutcomes : StoreResolved(i, invokeOk)
  \/ \E i \in 1..Len(releaseTimers) : ReleaseTimerFires(i)
  \/ AnimationFrame
  \/ Tick
  \/ \E quality \in ToolQualities : selectChordQuality(quality)

ToolSpec == StoreInit /\ [][ToolNext]_vars

PopupNext ==
  \/ \E si \in 1..Len(score.sections), pos \in HoverPositions :
       handleMouseMove(si, pos)
  \/ \E si \in 1..Len(score.sections), shiftKey \in BOOLEAN : handleStaffClick(si, shiftKey)
  \/ \E i \in 1..Len(pending) : PitchesResolved(i)
  \/ \E i \in 1..Len(pending), invokeOk \in GenInvokeOutcomes : StoreResolved(i, invokeOk)
  \/ \E i \in 1..Len(releaseTimers) : ReleaseTimerFires(i)
  \/ AnimationFrame
  \/ Tick
  \/ \E quality \in ToolQualities, inversion \in PopupInversions :
       updateChord(quality, inversion)
  \/ \E i \in 1..Len(pending), invokeOk \in GenInvokeOutcomes :
       updateChordResolved(i, invokeOk)

PopupSpec == StoreInit /\ [][PopupNext]_vars

-----------------------------------------------------------------------------
(* The coordinate mapper on its own: src/lib/services/vexflow.ts.  The ghost *)
(* starts on any natural pitch of the drawn range, in a staff of any clef,  *)
(* and is snapped back onto the staff through the two conversions.          *)

STAVE_Y == 50              \* vexflow.ts:35
STAFF_LINE_SPACING == 10   \* vexflow.ts:46

Clefs == {"treble", "bass", "alto", "tenor"}
GeomOctaves == 2..6
NaturalPitches ==
  {[note |-> n, octave |-> o, accidental |-> "none"] :
     n \in Range(NOTE_ORDER), o \in GeomOctaves}

\* The system coordinates calculateStaffCoordinates gives at scale 1.
systemCoords == [staffTopY |-> STAVE_Y, lineSpacing |-> STAFF_LINE_SPACING]

\* scoreStore.setClef.
setClef(sc, sectionId, clef) ==
  LET si == sectionIndex(sc.sections, sectionId)
  IN IF si = 0 THEN sc ELSE [sc EXCEPT !.sections[si].staff.clef = clef]

\* The pitch at position 0 of a clef.
referencePitch(clef) ==
  [note |-> CLEF_REFERENCES[clef].note,
   octave |-> CLEF_REFERENCES[clef].octave,
   accidental |-> "none"]

\* The ghost's pitch is turned into a staff position and back.
snapToStaffPosition ==
  /\ ghostNote # NoGhost
  /\ LET clef == score.sections[sectionIndex(score.sections, ghostNote.sectionId)].staff.clef
     IN ghostNote' = [ghostNote EXCEPT !.pitch =
          staffPositionToPitch(pitchToStaffPosition(ghostNote.pitch, clef), clef)]
  /\ lastCommand' = "snapPosition"
  /\ UNCHANGED <<updateManager, renderClock, settings, score, editor, isPlacingChord, hoverHasChord, isInsertMode,
                 staffCoordinates, pending, releaseTimers, nextId, placeCommands,
                 sinceSettled, rafPending>>

\* The ghost's pitch is turned into a pixel Y and the pointer is moved there.
snapToY ==
  /\ ghostNote # NoGhost
  /\ LET clef == score.sections[sectionIndex(score.sections, ghostNote.sectionId)].staff.clef
     IN ghostNote' = [ghostNote EXCEPT !.pitch =
          yPositionToPitch(pitchToYPosition(ghostNote.pitch, systemCoords, clef),
                           systemCoords, clef)]
  /\ lastCommand' = "snapY"
  /\ UNCHANGED <<updateManager, renderClock, settings, score, editor, isPlacingChord, hoverHasChord, isInsertMode,
                 staffCoordinates, pending, releaseTimers, nextId, placeCommands,
                 sinceSettled, rafPending>>

\* The rendered initial document in a given clef, nothing in flight.
GeomBase(clef) ==
  /\ score = setClef([sections |-> <<createChordNamingSection(DefaultMeasureCount, 1)>>],
                     1, clef)
  /\ nextId = DefaultMeasureCount + 2
  /\ editor = [activeTool |-> [type |-> "chord", quality |-> "major"],
               selectedChordId |-> 0,
               popupAnchor |-> NoAnchor,
               lastQuality |-> "major",
               lastInversion |-> "root"]
  /\ isPlacingChord = FALSE
  /\ hoverHasChord = FALSE
  /\ isInsertMode = FALSE
  /\ staffCoordinates = renderAllSections(score)
  /\ pending = <<>>
  /\ releaseTimers = <<>>
  /\ placeCommands = 0
  /\ lastCommand = "none"
  /\ sinceSettled = LatchHoldMs
  /\ rafPending = FALSE
  /\ renderClock = mountedClock
  /\ settings = DEFAULT_SETTINGS
  /\ updateManager = newUpdateManager

GeomInit ==
  \E clef \in Clefs, p \in NaturalPitches :
    /\ GeomBase(clef)
    /\ ghostNote = [pitch |-> p, measureIndex |-> 1, sectionId |-> 1]

GeomNext ==
  \/ snapToStaffPosition
  \/ snapToY
  \/ \E si \in 1..Len(score.sections), pos \in HoverPositions :
       handleMouseMove(si, pos)

GeomSpec == GeomInit /\ [][GeomNext]_vars

-----------------------------------------------------------------------------
(* The pointer mapping of the Svelte canvas: src/unnamed/part_002           *)
(* (services/verovio.ts) and src/lib/components/ScoreCanvas.svelte          *)

STAFF_TOP_Y_PERCENT == 30      \* ScoreCanvas.svelte:93
STAFF_BOTTOM_Y_PERCENT == 50   \* ScoreCanvas.svelte:94
STAFF_HEIGHT_PERCENT == STAFF_BOTTOM_Y_PERCENT - STAFF_TOP_Y_PERCENT

\* The bounding rectangle of the staff container.
svelteRect == [height |-> 400]

\* Staff positions the pointer is moved to (0 = the top line).
SveltePositions == -5..13

treblePitches ==
  <<[note |-> "f", octave |-> 5], [note |-> "e", octave |-> 5],
    [note |-> "d", octave |-> 5], [note |-> "c", octave |-> 5],
    [note |-> "b", octave |-> 4], [note |-> "a", octave |-> 4],
    [note |-> "g", octave |-> 4], [note |-> "f", octave |-> 4],
    [note |-> "e", octave |-> 4]>>

bassPitches ==
  <<[note |-> "a", octave |-> 3], [note |-> "g", octave |-> 3],
    [note |-> "f", octave |-> 3], [note |-> "e", octave |-> 3],
    [note |-> "d", octave |-> 3], [note |-> "c", octave |-> 3],
    [note |-> "b", octave |-> 2], [note |-> "a", octave |-> 2],
    [note |-> "g", octave |-> 2]>>

\* The two while loops bring the index back into 0..6, an octave per turn.
adjustPitchBySteps(pitch, steps) ==
  LET index == noteIndex(pitch.note) + steps
  IN [note |-> NOTE_ORDER[(index % 7) + 1],
      octave |-> Max(0, Min(8, pitch.octave + index \div 7)),
      accidental |-> pitch.accidental]

pitchFromStaffPosition(y, staffTop, staffHeight, clef) ==
  LET positionHeight == staffHeight \div 8
      rawPosition == RoundDiv(y - staffTop, positionHeight)
      position == Max(-4, Min(12, rawPosition))
      pitches == IF clef = "bass" THEN bassPitches ELSE treblePitches
      adjustedPosition == position + 4
  IN IF adjustedPosition < 0
     THEN adjustPitchBySteps([note |-> pitches[1].note, octave |-> pitches[1].octave,
                              accidental |-> "none"], -adjustedPosition)
     ELSE IF adjustedPosition >= Len(pitches)
     THEN adjustPitchBySteps([note |-> pitches[Len(pitches)].note,
                              octave |-> pitches[Len(pitches)].octave,
                              accidental |-> "none"],
                             -(adjustedPosition - Len(pitches) + 1))
     ELSE [note |-> pitches[adjustedPosition + 1].note,
           octave |-> pitches[adjustedPosition + 1].octave,
           accidental |-> "none"]

\* The pitch the Svelte canvas gives the pointer on staff position
\* staffPosition: ScoreCanvas.svelte computes staffTop and staffHeight from
\* the container and hands the pointer's Y to pitchFromStaffPosition.
sveltePitchAt(staffPosition, clef) ==
  LET staffTop == (svelteRect.height * STAFF_TOP_Y_PERCENT) \div 100
      staffHeight == (svelteRect.height * STAFF_HEIGHT_PERCENT) \div 100
  IN pitchFromStaffPosition(staffTop + staffPosition * (staffHeight \div 8),
                            staffTop, staffHeight, clef)

\* handleMouseMove of ScoreCanvas.svelte, the pointer on staff position
\* staffPosition of measure measureIndex.
svelteHandleMouseMove(si, staffPosition, measureIndex) ==
  LET section == score.sections[si]
      staffTop == (svelteRect.height * STAFF_TOP_Y_PERCENT) \div 100
      staffHeight == (svelteRect.height * STAFF_HEIGHT_PERCENT) \div 100
      yInContainer == staffTop + staffPosition * (staffHeight \div 8)
  IN /\ si \in 1..Len(score.sections)
     /\ measureIndex \in 1..Len(section.staff.measures)
     /\ IF editor.activeTool.type # "chord"
        THEN ghostNote' = NoGhost
        ELSE ghostNote' =
               [pitch |-> pitchFromStaffPosition(yInContainer, staffTop, staffHeight,
                                                 section.staff.clef),
                measureIndex |-> measureIndex,
                sectionId |-> section.id]
     /\ lastCommand' = "none"
     /\ UNCHANGED <<updateManager, renderClock, settings, score, editor, isPlacingChord, hoverHasChord, isInsertMode,
                    staffCoordinates, pending, releaseTimers, nextId,
                    placeCommands, sinceSettled, rafPending>>

\* handleMouseLeave of ScoreCanvas.svelte.
svelteHandleMouseLeave ==
  /\ ghostNote' = NoGhost
  /\ lastCommand' = "none"
  /\ UNCHANGED <<updateManager, renderClock, settings, score, editor, isPlacingChord, hoverHasChord, isInsertMode,
                 staffCoordinates, pending, releaseTimers, nextId,
                 placeCommands, sinceSettled, rafPending>>

SvelteGeomInit ==
  \E clef \in Clefs : GeomBase(clef) /\ ghostNote = NoGhost

SvelteGeomNext ==
  \/ \E si \in 1..Len(score.sections), pos \in SveltePositions :
       \E mi \in 1..Len(score.sections[si].staff.measures) :
         svelteHandleMouseMove(si, pos, mi)
  \/ svelteHandleMouseLeave

SvelteGeomSpec == SvelteGeomInit /\ [][SvelteGeomNext]_vars

-----------------------------------------------------------------------------
(* The pointer far above and below the staff: the SolidJS canvas over      *)
(* staff positions whose octave leaves 0..8 on both sides, in every clef.  *)

LedgerPositions == -40..45

LedgerInit == \E clef \in Clefs : GeomBase(clef) /\ ghostNote = NoGhost

LedgerNext ==
  \/ \E si \in 1..Len(score.sections), pos \in LedgerPositions :
       handleMouseMove(si, pos)
  \/ handleMouseLeave

LedgerSpec == LedgerInit /\ [][LedgerNext]_vars

-----------------------------------------------------------------------------
(* The canvas with a renderer that can fail: renderAllSections catches the *)
(* error of renderSection and leaves the section without coordinates.      *)

\* renderAllSections when renderSection throws for the sections in failed.
renderAllSectionsExcept(sc, failed) ==
  {[sectionId |-> sec.id, numBounds |-> Len(sec.staff.measures)] :
     sec \in {x \in Range(sc.sections) : x.id \notin failed}}

\* The queued animation frame runs renderAllSections and the renderer fails.
AnimationFrameFails(failed) ==
  /\ rafPending
  /\ failed # {}
  /\ rafPending' = FALSE
  /\ staffCoordinates' = renderAllSectionsExcept(score, failed)
  /\ UNCHANGED <<updateManager, renderClock, settings, score, editor, isPlacingChord, hoverHasChord, isInsertMode,
                 ghostNote, pending, releaseTimers, nextId, placeCommands,
                 lastCommand, sinceSettled>>

RenderNext ==
  \/ \E si \in 1..Len(score.sections), pos \in HoverPositions :
       handleMouseMove(si, pos)
  \/ handleMouseLeave
  \/ \E si \in 1..Len(score.sections), shiftKey \in BOOLEAN : handleStaffClick(si, shiftKey)
  \/ \E si \in 1..Len(score.sections) : handleStaffDoubleClick(si)
  \/ \E i \in 1..Len(pending) : PitchesResolved(i)
  \/ \E i \in 1..Len(pending), invokeOk \in GenInvokeOutcomes : StoreResolved(i, invokeOk)
  \/ \E i \in 1..Len(releaseTimers) : ReleaseTimerFires(i)
  \/ AnimationFrame
  \/ \E failed \in SUBSET {sec.id : sec \in Range(score.sections)} :
       AnimationFrameFails(failed)
  \/ Tick

RenderSpec == StoreInit /\ [][RenderNext]_vars

-----------------------------------------------------------------------------
(* The mounted canvas under document-change notifications and the passing  *)
(* of time (ThrottleSpec), and the settings panel of the worksheet         *)
(* generator on its own (SettingsSpec).                                    *)

\* scoreStore.setClef on the first section: the document changes and
\* renderVersion is bumped, so the effect runs (score.ts:611-621)
setClefNotify(clef) ==
  /\ Len(score.sections) > 0
  /\ score' = setClef(score, score.sections[1].id, clef)
  /\ RunEffectThrottled(score')
  /\ UNCHANGED <<updateManager, editor, isPlacingChord, hoverHasChord, isInsertMode, ghostNote,
                 staffCoordinates, pending, releaseTimers, nextId, placeCommands,
                 lastCommand, sinceSettled, settings>>

RenderTick ==
  /\ releaseTimers = <<>>
  /\ renderClock' = [renderClock EXCEPT
                       !.sinceRender = Min(RenderClockCap, @ + RenderTickMs),
                       !.sinceScheduled = Min(RenderClockCap, @ + RenderTickMs)]
  /\ sinceSettled' = Min(LatchHoldMs, sinceSettled + RenderTickMs)
  /\ UNCHANGED <<updateManager, score, editor, isPlacingChord, hoverHasChord, isInsertMode, ghostNote,
                 staffCoordinates, pending, releaseTimers, nextId, placeCommands,
                 lastCommand, rafPending, settings>>

ThrottleInit == GeomBase("treble") /\ ghostNote = NoGhost

ThrottleNext ==
  \/ \E clef \in Clefs : setClefNotify(clef)
  \/ \E si \in 1..Len(score.sections), pos \in HoverPositions :
       handleMouseMove(si, pos)
  \/ AnimationFrame
  \/ RenderTick

ThrottleSpec == ThrottleInit /\ [][ThrottleNext]_vars

\* The same with a host whose animation frames run and whose time passes.
ThrottleLiveSpec ==
  ThrottleSpec /\ WF_vars(AnimationFrame) /\ WF_vars(RenderTick)

SettingsNext ==
  \/ \E preset \in RootPresets : setRootPreset(preset)
  \/ \E root \in ToggledRoots : rootPressed(root) /\ toggleRoot(root)
  \/ \E quality \in ToggledQualities : toggleQuality(quality)
  \/ \E enabled \in BOOLEAN : setTriads(enabled)
  \/ \E enabled \in BOOLEAN : setSevenths(enabled)

SettingsSpec == StoreInit /\ [][SettingsNext]_vars

-----------------------------------------------------------------------------
(* The layout engine and the pointer mapping in pixels:                    *)
(* calculateStaffCoordinates and renderSection of                          *)
(* src/lib/services/vexflow.ts (renderSection of src/unnamed/part_003 lays *)
(* out the same way) and handleMouseMove of EditableHeader.tsx.  Lengths   *)
(* are whole pixels; every note region below divides evenly by 1, 2, 3 and *)
(* 4, so the quotients of the source are exact here.  centerX, which is    *)
(* never read, is left out of a bound.                                     *)

\* n / d rounded down
FloorDiv(n, d) == n \div d

\* Math.ceil(n / d) for d > 0
CeilDiv(n, d) == (n + d - 1) \div d

\* What the VexFlow stave reports: the notes of the first system start
\* after its clef and time signature, those of a later system after its
\* clef; they end at the right edge of the stave; line 0 lies four line
\* spacings under the stave's y.
staveNoteStartX(systemIndex) == IF systemIndex = 0 THEN 80 ELSE 56
staveNoteEndX == STAFF_WIDTH
staveYForLine(systemY, line) == systemY + (4 + line) * STAFF_LINE_SPACING

calculateStaffCoordinates(numMeasures) ==
  LET numSystems == CeilDiv(numMeasures, MEASURES_PER_SYSTEM)
      measureStartX == LEFT_MARGIN
      measureEndX == STAFF_WIDTH - RIGHT_MARGIN
      bound(i) ==
        LET systemIndex == i \div MEASURES_PER_SYSTEM
            measureInSystem == i % MEASURES_PER_SYSTEM
            measuresInThisSystem ==
              Min(MEASURES_PER_SYSTEM, numMeasures - systemIndex * MEASURES_PER_SYSTEM)
            measureWidth == (measureEndX - measureStartX) \div measuresInThisSystem
            systemY == STAVE_Y + systemIndex * (STAFF_HEIGHT + SYSTEM_SPACING)
            startX == measureStartX + measureInSystem * measureWidth
        IN [startX |-> startX,
            endX |-> startX + measureWidth,
            systemIndex |-> systemIndex,
            systemY |-> systemY,
            staffTopY |-> systemY,
            staffBottomY |-> systemY + 4 * STAFF_LINE_SPACING]
  IN [measureStartX |-> measureStartX,
      measureEndX |-> measureEndX,
      measureWidth |-> IF numMeasures > 0
                       THEN bound(0).endX - bound(0).startX
                       ELSE (measureEndX - measureStartX) \div MEASURES_PER_SYSTEM,
      staffTopY |-> STAVE_Y,
      staffBottomY |-> STAVE_Y + 4 * STAFF_LINE_SPACING,
      lineSpacing |-> STAFF_LINE_SPACING,
      totalWidth |-> STAFF_WIDTH,
      totalHeight |-> STAFF_HEIGHT * numSystems + SYSTEM_SPACING * (numSystems - 1),
      measureBounds |-> [k \in 1..numMeasures |-> bound(k - 1)],
      numSystems |-> numSystems,
      systemHeight |-> STAFF_HEIGHT,
      systemSpacing |-> SYSTEM_SPACING]

\* A last system laid out as if it were full
measuresInFullSystem(numMeasures, systemIndex) == MEASURES_PER_SYSTEM

\* endMeasure - startMeasure of renderSection
measuresInSystem(numMeasures, systemIndex) ==
  LET startMeasure == systemIndex * MEASURES_PER_SYSTEM
      endMeasure == Min(startMeasure + MEASURES_PER_SYSTEM, numMeasures)
  IN endMeasure - startMeasure

\* The coordinates renderSection returns.
renderSectionCoords(section) ==
  LET numMeasures == Len(section.staff.measures)
      numSystems == CeilDiv(numMeasures, MEASURES_PER_SYSTEM)
      bound(i) ==
        LET systemIndex == i \div MEASURES_PER_SYSTEM
            systemY == systemIndex * (STAFF_HEIGHT + SYSTEM_SPACING) + STAVE_Y
            noteStartX == staveNoteStartX(systemIndex)
            measureWidth == (staveNoteEndX - noteStartX)
                              \div measuresInSystem(numMeasures, systemIndex)
            startX == noteStartX + (i - systemIndex * MEASURES_PER_SYSTEM) * measureWidth
        IN [startX |-> startX,
            endX |-> startX + measureWidth,
            systemIndex |-> systemIndex,
            systemY |-> systemY,
            staffTopY |-> staveYForLine(systemY, 0),
            staffBottomY |-> staveYForLine(systemY, 4)]
      allMeasureBounds == [k \in 1..numMeasures |-> bound(k - 1)]
      any == numMeasures > 0
  IN [measureStartX |-> IF any THEN allMeasureBounds[1].startX ELSE 0,
      measureEndX |-> IF any THEN allMeasureBounds[numMeasures].endX ELSE STAFF_WIDTH,
      measureWidth |-> IF any
                       THEN allMeasureBounds[1].endX - allMeasureBounds[1].startX
                       ELSE STAFF_WIDTH \div MEASURES_PER_SYSTEM,
      staffTopY |-> IF any THEN staveYForLine(STAVE_Y, 0) ELSE STAVE_Y,
      staffBottomY |-> IF any THEN staveYForLine(STAVE_Y, 4) ELSE STAVE_Y + 40,
      lineSpacing |-> IF any
                      THEN (staveYForLine(STAVE_Y, 4) - staveYForLine(STAVE_Y, 0)) \div 4
                      ELSE STAFF_LINE_SPACING,
      totalWidth |-> STAFF_WIDTH,
      totalHeight |-> STAFF_HEIGHT * numSystems + SYSTEM_SPACING * (numSystems - 1),
      measureBounds |-> allMeasureBounds,
      numSystems |-> numSystems,
      systemHeight |-> STAFF_HEIGHT,
      systemSpacing |-> SYSTEM_SPACING]

\* renderAllSections, with the coordinates in full; by names the function
\* the coordinates come from.
renderAllSectionsCoords(sc) ==
  {[sectionId |-> sec.id, numBounds |-> Len(sec.staff.measures),
    by |-> "renderSection", coords |-> renderSectionCoords(sec)] :
     sec \in Range(sc.sections)}

coordsOf(coordinates, sectionId) ==
  (CHOOSE c \in coordinates : c.sectionId = sectionId).coords

\* The system of the pointer, with no half spacing added to its Y
targetSystemIndexOfBand(svgY, coords) ==
  IF coords.numSystems > 1
  THEN Max(0, Min((svgY \div (coords.systemHeight + coords.systemSpacing)),
                  coords.numSystems - 1))
  ELSE 0

\* handleMouseMove, lines 502-507
targetSystemIndexOf(svgY, coords) ==
  IF coords.numSystems > 1
  THEN Max(0, Min((svgY + coords.systemSpacing \div 2)
                     \div (coords.systemHeight + coords.systemSpacing),
                  coords.numSystems - 1))
  ELSE 0

\* The indices of the bounds of one system, in order.
systemMeasuresOf(coords, systemIndex) ==
  SelectSeq([k \in 1..Len(coords.measureBounds) |-> k],
            LAMBDA k : coords.measureBounds[k].systemIndex = systemIndex)

\* The loop with no default to the bounds the pointer has passed
RECURSIVE scanSystemMeasuresInside(_, _, _, _, _)
scanSystemMeasuresInside(svgX, coords, systemMeasures, k, measureIndex) ==
  IF k > Len(systemMeasures) THEN measureIndex
  ELSE LET bound == coords.measureBounds[systemMeasures[k]]
       IN IF svgX >= bound.startX /\ svgX < bound.endX
          THEN systemMeasures[k]
          ELSE scanSystemMeasuresInside(svgX, coords, systemMeasures, k + 1, measureIndex)

\* The for loop of handleMouseMove, lines 515-524, from the k-th bound of
\* the system on, with measureIndex as the loop has left it.
RECURSIVE scanSystemMeasures(_, _, _, _, _)
scanSystemMeasures(svgX, coords, systemMeasures, k, measureIndex) ==
  IF k > Len(systemMeasures) THEN measureIndex
  ELSE LET bound == coords.measureBounds[systemMeasures[k]]
       IN IF svgX >= bound.startX /\ svgX < bound.endX
          THEN systemMeasures[k]
          ELSE scanSystemMeasures(svgX, coords, systemMeasures, k + 1,
                                  IF svgX >= bound.endX THEN systemMeasures[k]
                                  ELSE measureIndex)

\* Which branch of the loop gave the index.
pointerBranch(svgX, coords, systemMeasures) ==
  IF \E k \in 1..Len(systemMeasures) :
       /\ svgX >= coords.measureBounds[systemMeasures[k]].startX
       /\ svgX < coords.measureBounds[systemMeasures[k]].endX
  THEN "inside"
  ELSE IF \E k \in 1..Len(systemMeasures) :
            svgX >= coords.measureBounds[systemMeasures[k]].endX
  THEN "pastEnd"
  ELSE "beforeStart"

\* xPositionToMeasure; the result counts measures from 1.
xPositionToMeasure(x, coords) ==
  IF x < coords.measureStartX THEN 0 + 1
  ELSE IF x > coords.measureEndX THEN (Len(coords.measureBounds) - 1) + 1
  ELSE Max(0, Min((x - coords.measureStartX) \div coords.measureWidth,
                  Len(coords.measureBounds) - 1)) + 1

\* handleMouseMove with the pointer at (svgX, svgY) of the SVG.
handleMouseMoveAt(si, svgX, svgY) ==
  LET section == score.sections[si]
      numBounds == numBoundsOf(staffCoordinates, section.id)
      coords == coordsOf(staffCoordinates, section.id)
      systemMeasures == systemMeasuresOf(coords, targetSystemIndexOf(svgY, coords))
      measureIndex == scanSystemMeasures(svgX, coords, systemMeasures, 1,
                                         systemMeasures[1])
      measureBound == coords.measureBounds[measureIndex]
  IN /\ si \in 1..Len(score.sections)
     /\ IF editor.activeTool.type # "chord"
        THEN ghostNote' = NoGhost /\ lastCommand' = "none" /\ UNCHANGED hoverHasChord
        ELSE IF numBounds = 0 \/ systemMeasures = <<>>
        THEN lastCommand' = "none" /\ UNCHANGED <<ghostNote, hoverHasChord>>
        ELSE /\ hoverHasChord' = measureHasChordAt(section, measureIndex)
             /\ ghostNote' =
                  [pitch |-> yPositionToPitch(svgY,
                                              [staffTopY |-> measureBound.staffTopY,
                                               lineSpacing |-> coords.lineSpacing],
                                              section.staff.clef),
                   measureIndex |-> measureIndex,
                   sectionId |-> section.id]
             /\ lastCommand' = pointerBranch(svgX, coords, systemMeasures)
     /\ UNCHANGED <<updateManager, score, editor, isPlacingChord, isInsertMode, staffCoordinates,
                    pending, releaseTimers, nextId, placeCommands,
                    sinceSettled, rafPending, renderClock, settings>>

\* The queued animation frame, with the coordinates in full.
AnimationFrameCoords ==
  /\ rafPending
  /\ rafPending' = FALSE
  /\ staffCoordinates' = renderAllSectionsCoords(score)
  /\ UNCHANGED <<updateManager, score, editor, isPlacingChord, hoverHasChord, isInsertMode,
                 ghostNote, pending, releaseTimers, nextId, placeCommands,
                 lastCommand, sinceSettled, renderClock, settings>>

\* A host lays the section out with calculateStaffCoordinates instead.
calculateCoordinates(si) ==
  /\ si \in 1..Len(score.sections)
  /\ staffCoordinates' =
       {[sectionId |-> score.sections[si].id,
         numBounds |-> Len(score.sections[si].staff.measures),
         by |-> "calculateStaffCoordinates",
         coords |-> calculateStaffCoordinates(Len(score.sections[si].staff.measures))]}
  /\ UNCHANGED <<updateManager, score, editor, isPlacingChord, hoverHasChord, isInsertMode,
                 ghostNote, pending, releaseTimers, nextId, placeCommands,
                 lastCommand, sinceSettled, rafPending, renderClock, settings>>

\* Pointer positions in the SVG: left of every note region, on the starts
\* and ends of regions and of measures, and right of the stave; on and
\* around the staves of two systems and the spacing between them.
PointerXs == {9, 56, 80, 229, 230, 679, 700}
PointerYs == {-30, 90, 209, 210, 220, 440}

LayoutInit ==
  /\ \E n \in 0..MaxLayoutMeasures :
       /\ score = [sections |-> <<createChordNamingSection(n, 1)>>]
       /\ nextId = n + 2
  /\ editor = [activeTool |-> [type |-> "chord", quality |-> "major"],
               selectedChordId |-> 0,
               popupAnchor |-> NoAnchor,
               lastQuality |-> "major",
               lastInversion |-> "root"]
  /\ isPlacingChord = FALSE
  /\ hoverHasChord = FALSE
  /\ isInsertMode = FALSE
  /\ ghostNote = NoGhost
  /\ staffCoordinates = {}
  /\ pending = <<>>
  /\ releaseTimers = <<>>
  /\ placeCommands = 0
  /\ lastCommand = "none"
  /\ sinceSettled = LatchHoldMs
  /\ rafPending = TRUE
  /\ renderClock = mountedClock
  /\ settings = DEFAULT_SETTINGS
  /\ updateManager = newUpdateManager

LayoutNext ==
  \/ AnimationFrameCoords
  \/ \E si \in 1..Len(score.sections) : calculateCoordinates(si)
  \/ \E si \in 1..Len(score.sections), svgX \in PointerXs, svgY \in PointerYs :
       handleMouseMoveAt(si, svgX, svgY)
  \/ handleMouseLeave

LayoutSpec == LayoutInit /\ [][LayoutNext]_vars

-----------------------------------------------------------------------------
(* Two live edits of the popup in flight.  A chord C major in root position *)
(* has been placed in the first measure and is selected; the user has       *)
(* changed the quality select to minor and then the inversion select to     *)
(* first, and neither updateChord has come back from the theory service:    *)
(* the handlers of the popup call updateChord() without awaiting it         *)
(* (src/unnamed/part_006, 182-206).  The second call reads the selects as   *)
(* the first left them, so its chord is the minor chord in first inversion. *)

RaceChordId == DefaultMeasureCount + 2

RaceInit ==
  LET base == [sections |-> <<createChordNamingSection(DefaultMeasureCount, 1)>>]
      measureId == base.sections[1].staff.measures[1].id
      placed == [root |-> "c", rootAccidental |-> "none", quality |-> "major",
                 inversion |-> "root"]
      update(chordDef) ==
        [phase |-> "update",
         caller |-> "popup",
         sectionId |-> 1,
         measureId |-> measureId,
         chordDef |-> chordDef,
         rootOctave |-> 4,
         isQuickPlace |-> FALSE,
         elementId |-> RaceChordId]
  IN /\ score = addChordToMeasureCommit(base, 1, measureId,
                                        chordElementOf(RaceChordId, placed, 4, 1, TRUE),
                                        RaceChordId + 1)
     /\ nextId = RaceChordId + 1
     /\ editor = selectChord([activeTool |-> [type |-> "chord", quality |-> "major"],
                              selectedChordId |-> 0,
                              popupAnchor |-> NoAnchor,
                              lastQuality |-> "major",
                              lastInversion |-> "root"],
                             RaceChordId,
                             [sectionId |-> 1, measureId |-> measureId])
     /\ pending = <<update([placed EXCEPT !.quality = "minor"]),
                    update([placed EXCEPT !.quality = "minor", !.inversion = "first"])>>
     /\ isPlacingChord = FALSE
     /\ hoverHasChord = FALSE
     /\ isInsertMode = FALSE
     /\ ghostNote = NoGhost
     /\ staffCoordinates = renderAllSections(score)
     /\ releaseTimers = <<>>
     /\ placeCommands = 1
     /\ lastCommand = "none"
     /\ sinceSettled = LatchHoldMs
     /\ rafPending = FALSE
     /\ renderClock = mountedClock
     /\ settings = DEFAULT_SETTINGS
     /\ updateManager = newUpdateManager

RaceSpec == RaceInit /\ [][PopupNext]_vars

-----------------------------------------------------------------------------
(* The document under every store method that adds or removes chords:     *)
(* addChordToMeasure, removeElement, clearAllChords (Clear All of the App, *)
(* src/lib/stores/worksheet.ts) and generateRandomWorksheet.               *)

\* A removal that leaves the answer boxes alone.
removeElementKeepBoxes(sc, sectionId, elementId) ==
  LET si == sectionIndex(sc.sections, sectionId)
  IN IF si = 0 THEN sc
     ELSE [sc EXCEPT !.sections[si].staff.measures =
             [m \in 1..Len(@) |->
                [@[m] EXCEPT !.elements =
                   SelectSeq(@, LAMBDA el : el.id # elementId)]]]

\* scoreStore.removeElement.
removeElement(sc, sectionId, elementId) ==
  LET si == sectionIndex(sc.sections, sectionId)
  IN IF si = 0 THEN sc
     ELSE [sc EXCEPT
             !.sections[si].staff.measures =
                [m \in 1..Len(@) |->
                   [@[m] EXCEPT !.elements =
                      SelectSeq(@, LAMBDA el : el.id # elementId)]],
             !.sections[si].answerBoxes =
                SelectSeq(@, LAMBDA box : box.chordElementId # elementId)]

\* scoreStore.clearAllChords, up to the bump of renderVersion.
clearAllChords(sc) ==
  [sc EXCEPT !.sections =
     [k \in 1..Len(@) |->
        [@[k] EXCEPT
           !.staff.measures = [m \in 1..Len(@) |-> [@[m] EXCEPT !.elements = <<>>]],
           !.answerBoxes = <<>>]]]

\* A host calls scoreStore.removeElement for a chord of the document.  The
\* produce() mutates the measures in place: no tracked signal changes.
removeElementCall(sectionId, elementId) ==
  /\ score' = removeElement(score, sectionId, elementId)
  /\ UNCHANGED <<updateManager, renderClock, settings, editor, isPlacingChord, hoverHasChord,
                 isInsertMode, ghostNote, staffCoordinates, pending, releaseTimers,
                 nextId, placeCommands, lastCommand, sinceSettled, rafPending>>

\* App.handleClearAll: scoreStore.clearAllChords, which bumps renderVersion.
handleClearAll ==
  /\ score' = clearAllChords(score)
  /\ RunEffect(TRUE, score')
  /\ UNCHANGED <<updateManager, renderClock, settings, editor, isPlacingChord, hoverHasChord,
                 isInsertMode, ghostNote, staffCoordinates, pending, releaseTimers,
                 nextId, placeCommands, lastCommand, sinceSettled>>

DocNext ==
  \/ \E sec \in Range(score.sections), def \in GenChordDefs :
       \E m \in PointerTargets(Len(sec.staff.measures)) :
         hostAddChordToMeasure(sec.id, sec.staff.measures[m].id, def)
  \/ \E i \in 1..Len(pending), invokeOk \in GenInvokeOutcomes :
       hostChordResolved(i, invokeOk)
  \/ \E sec \in Range(score.sections) :
       \E m \in PointerTargets(Len(sec.staff.measures)) :
         \E el \in Range(sec.staff.measures[m].elements) :
           removeElementCall(sec.id, el.id)
  \/ handleClearAll
  \/ \E pc \in GenProblemCounts, def \in GenChordDefs, invokeOk \in GenInvokeOutcomes :
       generateRandomWorksheet(pc, def, invokeOk)

DocSpec == StoreInit /\ [][DocNext]_vars

-----------------------------------------------------------------------------
(* The canvas with a user who double-clicks on the first measure only, so  *)
(* that an insert mode found anywhere else was entered on another measure. *)

InsertNext ==
  \/ \E si \in 1..Len(score.sections), pos \in HoverPositions :
       handleMouseMove(si, pos)
  \/ handleMouseLeave
  \/ \E si \in 1..Len(score.sections), shiftKey \in BOOLEAN : handleStaffClick(si, shiftKey)
  \/ \E si \in 1..Len(score.sections) :
       /\ ghostNote # NoGhost
       /\ ghostNote.measureIndex = 1
       /\ handleStaffDoubleClick(si)
  \/ \E i \in 1..Len(pending) : PitchesResolved(i)
  \/ \E i \in 1..Len(pending), invokeOk \in GenInvokeOutcomes : StoreResolved(i, invokeOk)
  \/ \E i \in 1..Len(releaseTimers) : ReleaseTimerFires(i)
  \/ AnimationFrame
  \/ Tick
  \/ \E pc \in GenProblemCounts, def \in GenChordDefs, invokeOk \in GenInvokeOutcomes :
       generateRandomWorksheet(pc, def, invokeOk)

InsertSpec == StoreInit /\ [][InsertNext]_vars

-----------------------------------------------------------------------------
(* The canvas in an environment that keeps its promises: every call to the *)
(* theory service comes back (with pitches, or failed and replaced by the  *)
(* fallback), time passes and a timer that is due fires.                    *)

LatchNext ==
  \/ \E si \in 1..Len(score.sections), pos \in HoverPositions :
       handleMouseMove(si, pos)
  \/ handleMouseLeave
  \/ \E si \in 1..Len(score.sections), shiftKey \in BOOLEAN : handleStaffClick(si, shiftKey)
  \/ \E si \in 1..Len(score.sections) : handleStaffDoubleClick(si)
  \/ \E i \in 1..Len(pending) : PitchesResolved(i)
  \/ \E i \in 1..Len(pending), invokeOk \in BOOLEAN : StoreResolved(i, invokeOk)
  \/ \E i \in 1..Len(releaseTimers) : ReleaseTimerFires(i)
  \/ AnimationFrame
  \/ Tick

LatchFairness ==
  /\ WF_vars(\E i \in 1..Len(pending) : PitchesResolved(i))
  /\ WF_vars(\E i \in 1..Len(pending), invokeOk \in BOOLEAN : StoreResolved(i, invokeOk))
  /\ WF_vars(\E i \in 1..Len(releaseTimers) : ReleaseTimerFires(i))
  /\ WF_vars(Tick)

LatchSpec == StoreInit /\ [][LatchNext]_vars /\ LatchFairness

-----------------------------------------------------------------------------
(* The canvas with the active tool changed through editorStore.setTool.    *)

\* editorStore.setTool.
setTool(ed, tool) == [ed EXCEPT !.activeTool = tool]

EditorTools == {[type |-> "select"], [type |-> "chord", quality |-> "major"]}

\* A caller sets the active tool.  activeTool is not among the signals the
\* canvas effect tracks.
setToolCall(tool) ==
  /\ editor.activeTool # tool
  /\ editor' = setTool(editor, tool)
  /\ UNCHANGED <<updateManager, renderClock, settings, score, isPlacingChord, hoverHasChord,
                 isInsertMode, ghostNote, staffCoordinates, pending, releaseTimers,
                 nextId, placeCommands, lastCommand, sinceSettled, rafPending>>

ActiveToolNext ==
  \/ \E tool \in EditorTools : setToolCall(tool)
  \/ \E si \in 1..Len(score.sections), pos \in HoverPositions :
       handleMouseMove(si, pos)
  \/ handleMouseLeave
  \/ \E si \in 1..Len(score.sections), shiftKey \in BOOLEAN : handleStaffClick(si, shiftKey)
  \/ \E i \in 1..Len(pending) : PitchesResolved(i)
  \/ \E i \in 1..Len(pending), invokeOk \in GenInvokeOutcomes : StoreResolved(i, invokeOk)
  \/ \E i \in 1..Len(releaseTimers) : ReleaseTimerFires(i)
  \/ AnimationFrame
  \/ Tick

ActiveToolSpec == StoreInit /\ [][ActiveToolNext]_vars

-----------------------------------------------------------------------------
(* The update manager on its own. *)

UpdateManagerSpec == StoreInit /\ [][UpdateManagerNext]_vars

-----------------------------------------------------------------------------
(* Properties *)

\* Pending placement i settles in this step: its store update is applied (or
\* found to have no target) and it leaves the pending placements.
Settles(i) ==
  /\ i \in 1..Len(pending)
  /\ pending[i].phase = "store"
  /\ pending' = RemoveAt(pending, i)

chordCount(measure) ==
  Cardinality({k \in 1..Len(measure.elements) : isChord(measure.elements[k])})

holdsChord(section, mi, chordId) ==
  /\ mi \in 1..Len(section.staff.measures)
  /\ \E el \in Range(section.staff.measures[mi].elements) : el.id = chordId

\* The measure a pending placement targets, where the document still has it.
targetMeasures(op) ==
  {m \in UNION {Range(sec.staff.measures) :
                  sec \in {x \in Range(score.sections) : x.id = op.sectionId}} :
     m.id = op.measureId}

\* The auto-expand of a placement on measure mi of the section applies.
expandDue(section, mi) ==
  /\ mi = Len(section.staff.measures)
  /\ section.autoExpand
  /\ Len(section.staff.measures) < section.maxMeasures

AutoExpandAtomic ==
  [][\A i \in 1..Len(pending) :
       Settles(i) =>
         LET op == pending[i]
             si == sectionIndex(score.sections, op.sectionId)
         IN si # 0 =>
              LET before == score.sections[si]
                  after == score'.sections[si]
                  mi == measureIndexOf(before.staff.measures, op.measureId)
                  placed == holdsChord(after, mi, op.elementId)
                  grew == Len(after.staff.measures) > Len(before.staff.measures)
              IN mi # 0 =>
                   /\ expandDue(before, mi) => (placed /\ grew)
                   /\ grew => placed]_vars

\* A section of three measures and maxMeasures four after a placement on its
\* third measure: four measures, the chord on the third.
ChordAndExpansionVisible ==
  \E sec \in Range(score.sections) :
    /\ sec.maxMeasures = 4
    /\ Len(sec.staff.measures) = 4
    /\ chordCount(sec.staff.measures[3]) = 1
    /\ sec.staff.measures[4].elements = <<>>
    /\ pending = <<>>

\* C3: a placement whose theory-service call completes after a newer placement
\* was committed for the same measure is discarded: the document is left as it
\* is.  (Element ids are drawn in call order, so the newer placement's chord
\* has the greater id.)
StaleResultDiscarded ==
  [][\A i \in 1..Len(pending) :
       (/\ Settles(i)
        /\ \E m \in targetMeasures(pending[i]) :
             \E el \in Range(m.elements) : el.id > pending[i].elementId)
       => score' = score]_vars

\* C4: every section's measure count is at most its maxMeasures.
MeasureCountWithinMax ==
  \A sec \in Range(score.sections) :
    Len(sec.staff.measures) <= sec.maxMeasures

\* C5: every measure holds at most one chord element.
AtMostOneChordPerMeasure ==
  \A sec \in Range(score.sections) :
    \A m \in Range(sec.staff.measures) : chordCount(m) <= 1

\* The ghost of the canvas lies on a measure of section si that holds a chord.
hoverOccupied(si) ==
  /\ ghostOn(score.sections[si])
  /\ measureHasChordAt(score.sections[si], ghostNote.measureIndex)

\* This step emits a select command for the chord under the ghost and leaves
\* the document and the pending placements alone.
selectsHovered(si) ==
  /\ lastCommand' = "select"
  /\ editor'.selectedChordId =
       findChordAtPosition(score.sections[si], ghostNote.measureIndex).id
  /\ editor'.popupAnchor.measureId =
       score.sections[si].staff.measures[ghostNote.measureIndex].id
  /\ score' = score
  /\ pending' = pending
  /\ placeCommands' = placeCommands

\* This step emits a place command for the measure under the ghost.
placesOnHovered(si) ==
  /\ lastCommand' = "place"
  /\ placeCommands' = placeCommands + 1
  /\ Len(pending') = Len(pending) + 1
  /\ pending'[Len(pending')].sectionId = score.sections[si].id
  /\ pending'[Len(pending')].measureId =
       score.sections[si].staff.measures[ghostNote.measureIndex].id

\* C6 as stated: a click while the hovered measure holds a chord and no insert
\* is pending emits a select command for that chord and leaves the document
\* unchanged.
ClickOnOccupiedSelects ==
  [][\A si \in 1..Len(score.sections), shiftKey \in BOOLEAN :
       (handleStaffClick(si, shiftKey) /\ hoverOccupied(si) /\ ~isInsertMode)
       => selectsHovered(si)]_vars

\* C6, amended: such a click emits the select command when the placing latch
\* is clear; with the latch set it emits nothing.  Either way the document is
\* unchanged.
ClickOnOccupiedSelectsUnlatched ==
  [][\A si \in 1..Len(score.sections), shiftKey \in BOOLEAN :
       (handleStaffClick(si, shiftKey) /\ hoverOccupied(si) /\ ~isInsertMode)
       => /\ score' = score
          /\ pending' = pending
          /\ IF isPlacingChord
             THEN lastCommand' = "ignored" /\ editor' = editor
             ELSE selectsHovered(si)]_vars

\* A click has selected the chord of an occupied measure.
OccupiedChordSelected ==
  /\ lastCommand = "select"
  /\ ~isInsertMode
  /\ \E sec \in Range(score.sections) :
       /\ ghostOn(sec)
       /\ editor.selectedChordId = findChordAtPosition(sec, ghostNote.measureIndex).id
       /\ editor.selectedChordId # 0

\* C7 as stated: a double-click over an occupied measure sets the insert mode,
\* and the click that follows it, the pointer still over an occupied measure,
\* emits a place command for that measure, not a select command.
InsertClickPlaces ==
  [][\A si \in 1..Len(score.sections) :
       /\ (handleStaffDoubleClick(si) /\ hoverOccupied(si)) => isInsertMode'
       /\ \A shiftKey \in BOOLEAN :
            (handleStaffClick(si, shiftKey) /\ hoverOccupied(si)
             /\ lastCommand = "insert")
            => placesOnHovered(si)]_vars

\* C7, amended: a click over an occupied measure places when it finds the
\* insert mode still set and the placing latch clear; with the latch set it
\* emits nothing and the insert mode stays as it is.
InsertClickPlacesUnlatched ==
  [][\A si \in 1..Len(score.sections) :
       /\ (handleStaffDoubleClick(si) /\ hoverOccupied(si)) => isInsertMode'
       /\ \A shiftKey \in BOOLEAN :
            (handleStaffClick(si, shiftKey) /\ hoverOccupied(si) /\ isInsertMode)
            => /\ isInsertMode'
               /\ IF isPlacingChord
                  THEN lastCommand' = "ignored" /\ pending' = pending
                  ELSE placesOnHovered(si)]_vars

\* A place command is in flight for a measure that holds a chord.
ReplacementInFlight ==
  /\ lastCommand = "place"
  /\ isInsertMode
  /\ Len(pending) = 1
  /\ \E m \in targetMeasures(pending[1]) : chordCount(m) = 1

LatchHeldThroughPlacement ==
  /\ pending # <<>> => isPlacingChord
  /\ ~isPlacingChord => sinceSettled >= LatchHoldMs

\* The latch has been released after a placement and its hold time.
LatchReleasedAfterHold ==
  /\ ~isPlacingChord
  /\ placeCommands >= 1
  /\ pending = <<>>
  /\ releaseTimers = <<>>
  /\ \E sec \in Range(score.sections) :
       \E m \in Range(sec.staff.measures) : chordCount(m) = 1

\* C10: a settling placement on the last measure of an auto-expanding section
\* below maxMeasures appends exactly min(autoExpandCount, maxMeasures - count)
\* empty measures, numbered on from the last; any other placement appends
\* none.  The chord is on the measure it was placed on, which keeps its index
\* and id, and the other measures are untouched.
AutoExpandExact ==
  [][\A i \in 1..Len(pending) :
       Settles(i) =>
         LET op == pending[i]
             si == sectionIndex(score.sections, op.sectionId)
         IN si # 0 =>
              LET before == score.sections[si].staff.measures
                  after == score'.sections[si].staff.measures
                  sec == score.sections[si]
                  n == Len(before)
                  mi == measureIndexOf(before, op.measureId)
                  expected == IF expandDue(sec, mi)
                              THEN Min(sec.autoExpandCount, sec.maxMeasures - n)
                              ELSE 0
              IN mi # 0 =>
                   /\ Len(after) = n + expected
                   /\ after[mi].id = op.measureId
                   /\ Len(after[mi].elements) = 1
                   /\ after[mi].elements[1].id = op.elementId
                   /\ \A k \in 1..n : k # mi => after[k] = before[k]
                   /\ \A k \in (n + 1)..(n + expected) :
                        after[k].elements = <<>> /\ after[k].number = k]_vars

\* Four measures, autoExpandCount 2 and maxMeasures 6 have become exactly six
\* measures, the chord on the fourth.
FourBecomeSix ==
  \E sec \in Range(score.sections) :
    /\ sec.maxMeasures = 6
    /\ sec.autoExpand
    /\ sec.autoExpandCount = 2
    /\ Len(sec.staff.measures) = 6
    /\ chordCount(sec.staff.measures[4]) = 1
    /\ sec.staff.measures[5].elements = <<>>
    /\ sec.staff.measures[6].elements = <<>>

\* C11: a placement that settles on the last measure of a section whose
\* measure count has reached maxMeasures puts the chord on that measure and
\* leaves the measure count as it is; the call completes like any other.
PlacementAtMaxKeepsCount ==
  [][\A i \in 1..Len(pending) :
       Settles(i) =>
         LET op == pending[i]
             si == sectionIndex(score.sections, op.sectionId)
         IN si # 0 =>
              LET sec == score.sections[si]
                  n == Len(sec.staff.measures)
                  mi == measureIndexOf(sec.staff.measures, op.measureId)
                  after == score'.sections[si]
              IN (mi = n /\ n >= sec.maxMeasures) =>
                   /\ Len(after.staff.measures) = n
                   /\ holdsChord(after, n, op.elementId)
                   /\ \E box \in Range(after.answerBoxes) :
                        box.chordElementId = op.elementId]_vars

\* The default section has grown to its sixteen measures and a chord has been
\* placed on the sixteenth.
ChordOnLastAtMax ==
  \E sec \in Range(score.sections) :
    /\ Len(sec.staff.measures) = sec.maxMeasures
    /\ sec.autoExpand
    /\ chordCount(sec.staff.measures[sec.maxMeasures]) = 1
    /\ pending = <<>>

\* C12: the numbers of a staff's measures are strictly increasing and
\* contiguous in list order.
MeasureNumbersContiguous ==
  \A sec \in Range(score.sections) :
    \A k \in 1..(Len(sec.staff.measures) - 1) :
      sec.staff.measures[k + 1].number = sec.staff.measures[k].number + 1

\* A section has grown both by an auto-expand and by added measures.
GrownBothWays ==
  \E sec \in Range(score.sections) :
    /\ Len(sec.staff.measures) = DefaultMeasureCount + DefaultAutoExpandCount
                                   + StaffLineMeasures
    /\ \E m \in Range(sec.staff.measures) : chordCount(m) = 1

\* C13: a placement whose theory-service call fails still commits a chord to
\* the target measure: one pitch, the root at the requested octave, and the
\* bare root as display name (also the answer box's correct answer).
FailedServiceRootOnly ==
  [][\A i \in 1..Len(pending) :
       hostChordResolved(i, FALSE) =>
         LET op == pending[i]
         IN \A m \in targetMeasures(op) :
              \E sec \in Range(score'.sections) :
                \E k \in 1..Len(sec.staff.measures) :
                  /\ sec.staff.measures[k].id = m.id
                  /\ Len(sec.staff.measures[k].elements) = 1
                  /\ LET el == sec.staff.measures[k].elements[1]
                     IN /\ el.id = op.elementId
                        /\ el.pitches = <<[note |-> op.chordDef.root,
                                           accidental |-> op.chordDef.rootAccidental,
                                           octave |-> op.rootOctave]>>
                        /\ el.displayName = <<op.chordDef.root,
                                              op.chordDef.rootAccidental>>
                        /\ \E box \in Range(sec.answerBoxes) :
                             /\ box.chordElementId = el.id
                             /\ box.correctAnswer = el.displayName]_vars

\* The document holds a root-only chord.
RootOnlyChordPlaced ==
  \E sec \in Range(score.sections) :
    \E m \in Range(sec.staff.measures) :
      /\ Len(m.elements) = 1
      /\ Len(m.elements[1].pitches) = 1
      /\ m.elements[1].pitches[1].note = m.elements[1].chordDef.root

\* The canvas holds no coordinates for section si.
geometryUnavailable(si) ==
  numBoundsOf(staffCoordinates, score.sections[si].id) = 0

\* C14: while the canvas holds no coordinates for a section, a pointer move
\* over the section leaves no ghost note on it and a click on it emits neither
\* a place nor a select command and changes nothing in the document.
NoGeometryNoInteraction ==
  [][\A si \in 1..Len(score.sections) :
       geometryUnavailable(si) =>
         /\ \A pos \in HoverPositions :
              handleMouseMove(si, pos) =>
                (ghostNote' = NoGhost \/ ghostNote'.sectionId # score.sections[si].id)
         /\ \A shiftKey \in BOOLEAN :
              handleStaffClick(si, shiftKey) =>
                /\ lastCommand' \notin {"place", "select"}
                /\ score' = score
                /\ pending' = pending
                /\ editor' = editor]_vars

\* C15: a click while there is no ghost emits no command and changes neither
\* the document nor the interaction state.
ClickWithoutGhostNoOp ==
  [][\A si \in 1..Len(score.sections), shiftKey \in BOOLEAN :
       (handleStaffClick(si, shiftKey) /\ ghostNote = NoGhost) =>
         /\ lastCommand' \in {"noop", "ignored"}
         /\ UNCHANGED <<score, editor, isPlacingChord, hoverHasChord, isInsertMode,
                        ghostNote, staffCoordinates, pending, releaseTimers,
                        nextId, placeCommands, rafPending>>]_vars

\* A click has been handled with no ghost and the latch clear.
ClickedWithoutGhost ==
  /\ ghostNote = NoGhost
  /\ lastCommand = "noop"
  /\ ~isPlacingChord
  /\ staffCoordinates # {}

\* C16: a pointer leave clears the ghost, the hover state and the insert mode,
\* whatever the state it is taken in.
LeaveGoesIdle ==
  [][handleMouseLeave =>
       /\ ghostNote' = NoGhost
       /\ ~hoverHasChord'
       /\ ~isInsertMode'
       /\ UNCHANGED <<score, pending, isPlacingChord>>]_vars

\* The pointer has left after a placement made from a ghost.
LeftAfterHover ==
  /\ ghostNote = NoGhost
  /\ ~hoverHasChord
  /\ ~isInsertMode
  /\ lastCommand = "none"
  /\ placeCommands >= 1

\* The operation the click of this step has put in flight.
placedOp == pending'[Len(pending')]

\* C17: a click on an empty hovered measure emits a place command for the
\* hovered section and measure, whose chord definition has the hovered note as
\* root and the quality selected in the Sidebar, with the hovered octave.
PlaceUsesSelectedQuality ==
  [][\A si \in 1..Len(score.sections), shiftKey \in BOOLEAN :
       (/\ handleStaffClick(si, shiftKey)
        /\ ~isPlacingChord
        /\ ghostOn(score.sections[si])
        /\ ~measureHasChordAt(score.sections[si], ghostNote.measureIndex))
       => /\ lastCommand' = "place"
          /\ Len(pending') = Len(pending) + 1
          /\ placedOp.sectionId = ghostNote.sectionId
          /\ placedOp.measureId =
               score.sections[si].staff.measures[ghostNote.measureIndex].id
          /\ placedOp.rootOctave = ghostNote.pitch.octave
          /\ placedOp.chordDef.root = ghostNote.pitch.note
          /\ placedOp.chordDef.quality = editor.activeTool.quality]_vars

\* C18: a place made with the quick-place modifier uses the last-used quality
\* and inversion, and when it settles it selects no chord and opens no popup.
QuickPlaceKeepsEditorClosed ==
  [][/\ \A si \in 1..Len(score.sections) :
          (handleStaffClick(si, TRUE) /\ lastCommand' = "place")
          => /\ placedOp.isQuickPlace
             /\ placedOp.chordDef.quality = editor.lastQuality
             /\ placedOp.chordDef.inversion = inversionMap(editor.lastInversion)
     /\ \A i \in 1..Len(pending), invokeOk \in GenInvokeOutcomes :
          (StoreResolved(i, invokeOk) /\ pending[i].isQuickPlace)
          => /\ editor' = editor
             /\ editor'.selectedChordId # pending[i].elementId
             /\ holdsChord(score'.sections[sectionIndex(score'.sections,
                                                        pending[i].sectionId)],
                           measureIndexOf(
                             score'.sections[sectionIndex(score'.sections,
                                                          pending[i].sectionId)].staff.measures,
                             pending[i].measureId),
                           pending[i].elementId)]_vars

\* Every chord of the document.
allChords(sc) ==
  {el \in UNION {Range(m.elements) :
                  m \in UNION {Range(sec.staff.measures) : sec \in Range(sc.sections)}} :
     isChord(el)}

\* A quick place has just settled after the popup changed the last-used
\* settings: the new chord carries them and the chord selected before it is
\* still the selected one.
QuickPlacedWithLastUsed ==
  /\ pending = <<>>
  /\ isPlacingChord
  /\ sinceSettled = 0
  /\ editor.lastQuality = "minor"
  /\ editor.lastInversion = "1"
  /\ \E a, b \in allChords(score) :
       /\ a.id = editor.selectedChordId
       /\ b.id > a.id
       /\ b.chordDef.quality = "minor"
       /\ b.chordDef.inversion = "first"

\* C19: a natural pitch of octaves 2 to 6 turned into a staff position and
\* back, in any clef, directly or through the pixel Y of its line, is the
\* same pitch.
PitchRoundTrip ==
  [][(snapToStaffPosition \/ snapToY) =>
       (ghostNote.pitch \in NaturalPitches => ghostNote'.pitch = ghostNote.pitch)]_vars

\* The lowest and the highest pitch of the range have been snapped, each in
\* the clef whose staff is farthest from it.
ExtremesSnapped ==
  /\ lastCommand \in {"snapPosition", "snapY"}
  /\ ghostNote # NoGhost
  /\ LET clef == score.sections[1].staff.clef
     IN \/ clef = "bass" /\ ghostNote.pitch.note = "b" /\ ghostNote.pitch.octave = 6
        \/ clef = "treble" /\ ghostNote.pitch.note = "c" /\ ghostNote.pitch.octave = 2

\* C20: a pointer move onto staff position 0, the top line, leaves a ghost
\* whose pitch is the reference pitch of the section's clef: F5 in treble,
\* A3 in bass, G4 in alto, A4 in tenor.
TopLineIsReference ==
  [][\A si \in 1..Len(score.sections) :
       (\/ handleMouseMove(si, 0)
        \/ \E mi \in 1..Len(score.sections[si].staff.measures) :
             svelteHandleMouseMove(si, 0, mi))
       => (ghostNote' # NoGhost =>
             ghostNote'.pitch = referencePitch(score.sections[si].staff.clef))]_vars

\* In a treble section hovered on the top line every committed chord has
\* root F.
TopLineChordRootF ==
  \A ch \in allChords(score) : ch.chordDef.root = "f"

\* C29: after any sequence of toggleRoot, toggleQuality, setTriads,
\* setSevenths and setRootPreset calls, allowedRoots and allowedQualities are
\* both non-empty.
SettingsNeverEmpty ==
  /\ Len(settings.allowedRoots) > 0
  /\ Len(settings.allowedQualities) > 0

\* The roots have been taken away by hand down to a single one, and the
\* qualities down to "major" alone: the next press of either chip is the one
\* the store refuses.
LastRootAndQualityLeft ==
  /\ settings.rootPreset = "custom"
  /\ Len(settings.allowedRoots) = 1
  /\ settings.allowedQualities = <<"major">>

\* C28: layout recomputations triggered by pointer movement or by
\* document-change notifications are rate-limited: two successive ones are
\* never scheduled less than the minimum inter-render interval (50 ms) apart.
RendersThrottledApart == renderClock.gap >= MIN_RENDER_INTERVAL

\* The effect has scheduled two renders, a measured time apart, and has
\* dropped a notification that came too soon after a scheduling.
SecondRenderAfterSkip ==
  /\ renderClock.scheduled = 2
  /\ renderClock.skipped
  /\ renderClock.gap < RenderClockCap

\* pitch.octave * 7 + NOTE_ORDER.indexOf(pitch.note)
absolutePositionOf(pitch) == pitch.octave * 7 + noteIndex(pitch.note)

\* The staff position lies where extrapolation from the clef's reference
\* pitch gives an octave of 0 to 8.
octaveInRangeAt(staffPosition, clef) ==
  (absolutePositionOf(referencePitch(clef)) - staffPosition) \div 7 \in 0..8

\* C21: for every integer staff position and every clef, positionToPitch
\* returns a pitch whose octave lies within [0,8].
GhostOctaveInRange ==
  ghostNote # NoGhost => ghostNote.pitch.octave \in 0..8

\* The pointer is so far below a treble staff, or so far above a bass
\* staff, that the octave has run into its bound.
GhostAtOctaveBound ==
  /\ ghostNote # NoGhost
  /\ LET clef == score.sections[1].staff.clef
     IN \/ clef = "treble" /\ ghostNote.pitch.octave = 0
        \/ clef = "bass" /\ ghostNote.pitch.octave = 8

\* C22: staff positions outside the drawn staff resolve by extrapolation:
\* each +1 in staff position lowers the resulting pitch by exactly one
\* diatonic step, with no clamping at an edge, as long as the resulting
\* octave lies within [0,8].
LedgerExtrapolates ==
  [][\A si \in 1..Len(score.sections), pos \in LedgerPositions :
       LET clef == score.sections[si].staff.clef
           inRange == octaveInRangeAt(pos, clef) /\ octaveInRangeAt(pos - 1, clef)
       IN /\ handleMouseMove(si, pos) /\ ghostNote' # NoGhost /\ inRange
               => absolutePositionOf(ghostNote'.pitch)
                    = absolutePositionOf(staffPositionToPitch(pos - 1, clef)) - 1
          /\ (\E mi \in 1..Len(score.sections[si].staff.measures) :
                svelteHandleMouseMove(si, pos, mi)) /\ ghostNote' # NoGhost /\ inRange
               => absolutePositionOf(ghostNote'.pitch)
                    = absolutePositionOf(sveltePitchAt(pos - 1, clef)) - 1]_vars

\* The same of the SolidJS canvas alone.
SolidLedgerExtrapolates ==
  [][\A si \in 1..Len(score.sections), pos \in LedgerPositions :
       LET clef == score.sections[si].staff.clef
       IN /\ handleMouseMove(si, pos) /\ ghostNote' # NoGhost
          /\ octaveInRangeAt(pos, clef) /\ octaveInRangeAt(pos - 1, clef)
          => absolutePositionOf(ghostNote'.pitch)
               = absolutePositionOf(staffPositionToPitch(pos - 1, clef)) - 1]_vars

\* The section a record of staffCoordinates belongs to.
sectionOfCoords(c) == score.sections[sectionIndex(score.sections, c.sectionId)]

\* The number of bounds of the systems s, s+1, ... of a layout.
RECURSIVE boundsFromSystem(_, _)
boundsFromSystem(coords, s) ==
  IF s >= coords.numSystems THEN 0
  ELSE Len(systemMeasuresOf(coords, s)) + boundsFromSystem(coords, s + 1)

\* C23: for a measure count N and M measures per system, the computed
\* layout has ceil(N/M) systems, and the numbers of measure bounds of its
\* systems sum to N.
LayoutSystemsHoldAllMeasures ==
  \A c \in staffCoordinates :
    LET N == Len(sectionOfCoords(c).staff.measures)
        systems == CHOOSE k \in 0..N :
                     /\ k * MEASURES_PER_SYSTEM >= N
                     /\ k = 0 \/ (k - 1) * MEASURES_PER_SYSTEM < N
    IN /\ c.coords.numSystems = systems
       /\ boundsFromSystem(c.coords, 0) = N

\* A section of two or more systems, the last of them not full, is laid out.
ShortLastSystemLaidOut ==
  \E c \in staffCoordinates :
    /\ c.coords.numSystems >= 2
    /\ Len(c.coords.measureBounds) % MEASURES_PER_SYSTEM # 0

\* Where the notes of a system start and end for the function that made
\* the layout.
noteRegionOf(c, systemIndex) ==
  IF c.by = "renderSection"
  THEN [startX |-> staveNoteStartX(systemIndex), endX |-> staveNoteEndX]
  ELSE [startX |-> LEFT_MARGIN, endX |-> STAFF_WIDTH - RIGHT_MARGIN]

\* C24: within each system the measures have equal width and their bounds
\* tile the region from note start X to note end X with no gap and no
\* overlap; a last system with fewer measures uses its own measure width.
SystemBoundsTileNoteRegion ==
  \A c \in staffCoordinates :
    \A s \in 0..(c.coords.numSystems - 1) :
      LET sm == systemMeasuresOf(c.coords, s)
          b(k) == c.coords.measureBounds[sm[k]]
          region == noteRegionOf(c, s)
      IN /\ sm # <<>>
         /\ b(1).startX = region.startX
         /\ b(Len(sm)).endX = region.endX
         /\ \A k \in 1..(Len(sm) - 1) : b(k).endX = b(k + 1).startX
         /\ \A k \in 1..Len(sm) :
              /\ b(k).endX - b(k).startX = b(1).endX - b(1).startX
              /\ b(k).endX > b(k).startX

\* renderSection has laid out two systems, and the measures of the last,
\* being fewer, are wider than those of the first.
WiderMeasuresInLastSystem ==
  \E c \in staffCoordinates :
    LET bounds == c.coords.measureBounds
    IN /\ c.by = "renderSection"
       /\ c.coords.numSystems = 2
       /\ bounds[Len(bounds)].endX - bounds[Len(bounds)].startX
            > bounds[1].endX - bounds[1].startX

\* C25: with no measures the layout is valid geometry: zero systems, no
\* measure bounds and no negative dimension.
EmptyLayoutValid ==
  \A c \in staffCoordinates :
    Len(sectionOfCoords(c).staff.measures) = 0 =>
      /\ c.coords.numSystems = 0
      /\ c.coords.measureBounds = <<>>
      /\ c.coords.totalWidth >= 0
      /\ c.coords.totalHeight >= 0
      /\ c.coords.measureWidth >= 0
      /\ c.coords.lineSpacing >= 0

\* The pointer handler leaves a section without measure bounds alone.
EmptyLayoutNoGhost ==
  \A c \in staffCoordinates :
    c.coords.measureBounds = <<>> => ghostNote = NoGhost

\* C26: a pointer X at or beyond the endX of the last measure of the
\* pointer's system maps to that measure, a pointer X before its first
\* measure maps to the first, and the mapped index is always that of a
\* measure; xPositionToMeasure does the same in a layout of one system.
PointerClampsToEdgeMeasure ==
  [][\A si \in 1..Len(score.sections), svgX \in PointerXs, svgY \in PointerYs :
       lastCommand' # "none" /\ handleMouseMoveAt(si, svgX, svgY) =>
         LET coords == coordsOf(staffCoordinates, score.sections[si].id)
             bounds == coords.measureBounds
             mapped == ghostNote'.measureIndex
         IN /\ mapped \in 1..Len(score.sections[si].staff.measures)
            /\ mapped \in 1..Len(bounds)
            /\ LET sm == systemMeasuresOf(coords, bounds[mapped].systemIndex)
               IN /\ svgX >= bounds[sm[Len(sm)]].endX => mapped = sm[Len(sm)]
                  /\ svgX < bounds[sm[1]].startX => mapped = sm[1]
            /\ coords.numSystems = 1 =>
                 /\ xPositionToMeasure(svgX, coords) \in 1..Len(bounds)
                 /\ svgX > coords.measureEndX
                      => xPositionToMeasure(svgX, coords) = Len(bounds)
                 /\ svgX < coords.measureStartX
                      => xPositionToMeasure(svgX, coords) = 1]_vars

\* The pointer is right of every measure of the second system, which is
\* not full, and the ghost lies on the last measure of the section.
PointerPastShortSystem ==
  /\ lastCommand = "pastEnd"
  /\ ghostNote # NoGhost
  /\ ghostNote.measureIndex = Len(score.sections[1].staff.measures)
  /\ ghostNote.measureIndex > MEASURES_PER_SYSTEM
  /\ ghostNote.measureIndex % MEASURES_PER_SYSTEM # 0

\* The system the pointer handler has put the ghost in.
systemOfGhost(coords, ghost) == coords.measureBounds[ghost.measureIndex].systemIndex

\* C27 as stated: the system index chosen for a pointer is
\* floor(logicalY / (systemHeight + systemSpacing)) clamped to
\* [0, numSystems-1].
SystemIndexIsBandOfY ==
  [][\A si \in 1..Len(score.sections), svgX \in PointerXs, svgY \in PointerYs :
       lastCommand' # "none" /\ handleMouseMoveAt(si, svgX, svgY) =>
         LET coords == coordsOf(staffCoordinates, score.sections[si].id)
         IN systemOfGhost(coords, ghostNote')
              = Max(0, Min(svgY \div (coords.systemHeight + coords.systemSpacing),
                           coords.numSystems - 1))]_vars

\* C27, amended: the system index chosen for a pointer is
\* floor((logicalY + systemSpacing / 2) / (systemHeight + systemSpacing))
\* clamped to [0, numSystems-1]: the spacing between two systems is split
\* in the middle between them.
SystemIndexIsBandOfYPlusHalfSpacing ==
  [][\A si \in 1..Len(score.sections), svgX \in PointerXs, svgY \in PointerYs :
       lastCommand' # "none" /\ handleMouseMoveAt(si, svgX, svgY) =>
         LET coords == coordsOf(staffCoordinates, score.sections[si].id)
         IN systemOfGhost(coords, ghostNote')
              = Max(0, Min((svgY + coords.systemSpacing \div 2)
                              \div (coords.systemHeight + coords.systemSpacing),
                           coords.numSystems - 1))]_vars

\* The ghost is in the second system of a rendered section, and its snapped
\* Y lies above the line where the band of the second system begins: the
\* pointer is in the lower half of the spacing.
GhostFromLowerHalfSpacing ==
  /\ ghostNote # NoGhost
  /\ lastCommand # "none"
  /\ \E c \in staffCoordinates :
       /\ c.by = "renderSection"
       /\ systemOfGhost(c.coords, ghostNote) = 1
       /\ pitchToYPosition(ghostNote.pitch,
                           [staffTopY |-> c.coords.measureBounds[ghostNote.measureIndex].staffTopY,
                            lineSpacing |-> c.coords.lineSpacing],
                           score.sections[1].staff.clef)
            < c.coords.systemHeight + c.coords.systemSpacing

\* C30: two updates of one chord are issued in order and come back from
\* the theory service in any order: once they, and the updates after them,
\* have all come back, the chord reflects the later-issued update.  Every
\* update after the first asks for the first inversion.
LaterUpdateWins ==
  (pending = <<>> /\ getChordElement(score, RaceChordId) # NoChord) =>
    getChordElement(score, RaceChordId).chordDef.inversion = "first"


\* C31: a placement whose target section or measure is no longer in the
\* document when its theory-service call resolves leaves the document as it
\* is: no chord, no answer box and no appended measure.
TargetGoneLeavesDocument ==
  [][\A i \in 1..Len(pending) :
       (Settles(i) /\ targetMeasures(pending[i]) = {}) => score' = score]_vars

\* A placement has settled after the worksheet was regenerated under it: the
\* chord it selected, whose id is the last one drawn, is not in the document.
PlacedAfterTargetReplaced ==
  /\ pending = <<>>
  /\ editor.selectedChordId = nextId - 1
  /\ getChordElement(score, editor.selectedChordId) = NoChord
  /\ \A sec \in Range(score.sections) : sec.id # editor.popupAnchor.sectionId


\* C33: whenever a chord is selected in the editor, the document holds a chord
\* element with that id: no replacement, removal, clearing or regeneration
\* leaves the selection dangling.
SelectionExists ==
  editor.selectedChordId # 0 =>
    getChordElement(score, editor.selectedChordId) # NoChord


\* The chords of a section, each with the id of its measure.
chordsIn(sec) ==
  UNION {{[id |-> sec.staff.measures[m].elements[k].id,
           measureId |-> sec.staff.measures[m].id] :
            k \in {x \in 1..Len(sec.staff.measures[m].elements) :
                     isChord(sec.staff.measures[m].elements[x])}} :
           m \in 1..Len(sec.staff.measures)}

\* C32: in every document state each chord element has exactly one answer box
\* with its id, that box carries the id of the chord's measure, and every
\* answer box refers to a chord element of the document.
AnswerBoxPerChord ==
  \A sec \in Range(score.sections) :
    /\ \A c \in chordsIn(sec) :
         LET own == {b \in 1..Len(sec.answerBoxes) :
                       sec.answerBoxes[b].chordElementId = c.id}
         IN /\ Cardinality(own) = 1
            /\ \A b \in own : sec.answerBoxes[b].measureId = c.measureId
    /\ \A b \in 1..Len(sec.answerBoxes) :
         \E c \in chordsIn(sec) : c.id = sec.answerBoxes[b].chordElementId

\* Two placements have settled and one chord, with its one answer box, is
\* left in the section: the other was replaced or deleted.
OneChordLeftOfTwo ==
  /\ placeCommands = 2
  /\ pending = <<>>
  /\ \E sec \in Range(score.sections) :
       /\ sec.id = 1
       /\ Cardinality(chordsIn(sec)) = 1
       /\ Len(sec.answerBoxes) = 1


\* C34: the insert mode entered by a double-click on an occupied measure
\* applies to that measure only.  The user double-clicks on the first measure
\* alone: a click, the latch clear, on any other occupied measure emits a
\* select command for that measure's chord and no place command.
InsertModeOnItsMeasureOnly ==
  [][\A si \in 1..Len(score.sections), shiftKey \in BOOLEAN :
       (/\ handleStaffClick(si, shiftKey)
        /\ ~isPlacingChord
        /\ hoverOccupied(si)
        /\ ghostNote.measureIndex # 1)
       => selectsHovered(si)]_vars


\* C35: when the theory-service calls of a place command come back, resolved
\* or failed, the placing latch is cleared in the end: a set latch, or a
\* placement in flight, leads to a state with the latch clear and nothing in
\* flight, where a click can place again.
LatchEventuallyCleared ==
  (isPlacingChord \/ pending # <<>>) ~> (~isPlacingChord /\ pending = <<>>)

\* A second place command has been emitted: the latch of the first was
\* cleared and a click placed again.
PlacedAgainAfterRelease ==
  /\ placeCommands = 2
  /\ lastCommand = "place"
  /\ isPlacingChord
  /\ Len(pending) = 1
  /\ releaseTimers = <<>>


\* C36: every document change is reflected in a render in the end: a change
\* whose notification the throttle dropped, no render being scheduled, leads
\* to a render scheduled after it.
DroppedChangeRenderedLater ==
  renderClock.stale ~> ~renderClock.stale


\* C37: a click while the active tool is not the chord tool emits neither a
\* place nor a select command, whether or not a ghost is left from an earlier
\* pointer move.
NoCommandWithoutChordTool ==
  [][\A si \in 1..Len(score.sections), shiftKey \in BOOLEAN :
       (handleStaffClick(si, shiftKey) /\ editor.activeTool.type # "chord")
       => lastCommand' \notin {"place", "select"}]_vars


\* C38: after cancelUpdate(id) the update function scheduled for that id is
\* not run by a later flush unless it is scheduled again: every update a
\* flush runs for the first time is one whose id is still among the pending
\* updates.
CancelledUpdateNotRun ==
  [][flush =>
       \A k \in 1..flushRun(updateManager.updates) :
         LET update == updateManager.updates[k]
             ran == {updateManager.executed[i] :
                       i \in 1..Len(updateManager.executed)}
         IN update.fn \notin ran
              => update.updateId \in updateManager.pendingUpdates]_vars

\* C39: every update added to the batcher runs at most once and in the order
\* added, also when an update of the same flush throws: the functions that
\* have run, numbered in the order they were added, form an increasing
\* sequence.
UpdatesRunOnceInOrder ==
  \A i, j \in 1..Len(updateManager.executed) :
    i < j => updateManager.executed[i] < updateManager.executed[j]

====
